---- MODULE Spec2Model ----
(***************************************************************************)
(* Control-protocol engine of claude-agent-sdk-ts: the Query engine with   *)
(* its read loop, pending-correlation registry and control-request         *)
(* handlers (src/src/query.ts), the McpServerBridge with its in-memory     *)
(* transport, and the AsyncQueue both are built on                         *)
(* (src/src/utils/asyncQueue.ts).                                          *)
(*                                                                         *)
(* Every await of the source that waits on the outside world (a transport  *)
(* write, a callback, the service's connect or message handler, a queue    *)
(* pull, the timer) is a point where the task is suspended and another     *)
(* action may run.  Code between two such awaits runs in one action.       *)
(***************************************************************************)
EXTENDS Integers, Sequences, FiniteSets, Bags, TLC

\* Bounds of the model.
MaxMsgs == 3      \* inbound messages the read loop takes from the transport
MaxRequests == 2  \* control requests dispatched where every kind of handler runs
MaxCalls == 2     \* engine-initiated control requests (sendControlRequest calls)
MaxSends == 2     \* messages the in-process service sends on the bridge transport
MaxPulls == 2     \* pulls a consumer makes on receiveMessages()
MaxPrompts == 1   \* prompt messages streamInput writes
MaxStarts == 3    \* calls of start()
MaxCloses == 2    \* calls of close()
MaxQPushes == 3   \* push calls on the AsyncQueue taken alone
MaxQPulls == 4    \* next() calls on it
MaxQEnds == 2     \* close() and fail() calls on it
MaxFields == 3    \* fields of a hook callback's output record
MaxConnects == 2  \* connect() calls on a client

VARIABLES
    \* Query fields
    canUseTool,              \* is a permission callback configured
    closed,                  \* Query.closed
    messageQueue,            \* Query.messageQueue (an AsyncQueue)
    pendingControlRequests,  \* keys of Query.pendingControlRequests
    hookCallbacks,           \* keys of Query.hookCallbacks
    requestCounter,          \* Query.requestCounter
    readLoop,                \* Query.readLoopPromise: "none", "running", "done"
    sdkMcpBridges,           \* keys of Query.sdkMcpBridges
    \* tasks
    callers,                 \* sendControlRequest invocations, by request id
    handlers,                \* handleControlRequest tasks, in dispatch order
    nHandlers,               \* number of handlers dispatched so far
    closePc,                 \* position of a close() call
    \* the transport (external collaborator)
    written,                 \* lines a transport write has accepted (a bag)
    nRead,                   \* messages the read loop has taken
    \* the consumer of receiveMessages()
    consumer,                \* "idle" or "waiting"
    received,                \* results of its pulls
    \* McpServerBridge of the registered server, and its InMemoryMcpTransport
    connected,               \* McpServerBridge.connected
    queue,                   \* McpServerBridge.queue: 0 resolved, h: follows handler h
    tClosed,                 \* InMemoryMcpTransport.closed
    outboundQueue,           \* InMemoryMcpTransport.outboundQueue
    onerror,                 \* has the service registered transport.onerror
    wfr,                     \* waitForResponse invocation of each handler
    \* the wrapped service (external collaborator)
    connectCalls,            \* invocations of instance.connect
    nSends,                  \* transport.send calls made by the service
    \* further Query fields, the transport's process and close()'s loop
    isStreamingMode,         \* Query.isStreamingMode
    initializationResult,    \* Query.initializationResult
    inputEnded,              \* has transport.endInput() been called
    child,                   \* does the transport hold its process (not torn down)
    closing,                 \* bridges close() has still to close, the first in progress
    \* an AsyncQueue taken alone, with the next() calls made on it
    aq,                      \* the queue
    pulls,                   \* result of each next() call, in call order
    qlog,                    \* history of the calls made on the queue
    \* a hook callback's output and what convertHookOutputForCli makes of it
    hook,
    \* ClaudeAgentSDKClient
    client,
    \* history
    log                      \* what happened, for stating the properties

queryVars == <<canUseTool, closed, messageQueue, pendingControlRequests,
               hookCallbacks, requestCounter, readLoop, sdkMcpBridges>>
taskVars == <<callers, handlers, nHandlers, closePc>>
ioVars == <<written, nRead, consumer, received>>
bridgeVars == <<connected, queue, tClosed, outboundQueue, onerror, wfr,
                connectCalls, nSends>>
extVars == <<isStreamingMode, initializationResult, inputEnded, child, closing>>
unitVars == <<aq, pulls, qlog, hook, client>>
vars == <<queryVars, taskVars, ioVars, bridgeVars, extVars, unitVars, log>>

Calls == 1..MaxCalls
Handlers == 1..MaxMsgs

(***************************************************************************)
(* AsyncQueue                                                              *)
(***************************************************************************)
\* The error field of a queue that has not failed.  next() tests the field
\* for truthiness, so a queue failed with undefined (or another falsy value)
\* reads as one that has not failed.
NoError == "undefined"

\* A freshly constructed AsyncQueue.
NewAsyncQueue == [values |-> <<>>, waiters |-> <<>>, closed |-> FALSE, error |-> NoError]

\* What a pull settles with.
Value(v) == [kind |-> "value", v |-> v]
Done == [kind |-> "done", v |-> ""]
Rejected(e) == [kind |-> "error", v |-> e]

\* The waiters settled last first.
RECURSIVE WakeAllReversed(_, _)
WakeAllReversed(ws, res) ==
    IF ws = <<>> THEN <<>>
    ELSE WakeAllReversed(Tail(ws), res) \o <<[w |-> Head(ws), res |-> res]>>

\* Every waiter of ws, in order, paired with the same result.
RECURSIVE WakeAll(_, _)
WakeAll(ws, res) ==
    IF ws = <<>> THEN <<>>
    ELSE <<[w |-> Head(ws), res |-> res]>> \o WakeAll(Tail(ws), res)

\* A push that buffers whether or not the queue is closed.
QPushThoughClosed(q, v) ==
    IF Len(q.waiters) > 0
    THEN [q |-> [q EXCEPT !.waiters = Tail(q.waiters)], threw |-> FALSE,
          wake |-> <<[w |-> Head(q.waiters), res |-> Value(v)]>>]
    ELSE [q |-> [q EXCEPT !.values = Append(q.values, v)], threw |-> FALSE,
          wake |-> <<>>]

\* A push that buffers its value and leaves the waiters waiting.
QPushBesideWaiters(q, v) ==
    IF q.closed THEN [q |-> q, threw |-> TRUE, wake |-> <<>>]
    ELSE [q |-> [q EXCEPT !.values = Append(q.values, v)], threw |-> FALSE,
          wake |-> <<>>]

\* A push that puts its value in front of the buffered ones.
QPushInFront(q, v) ==
    IF q.closed THEN [q |-> q, threw |-> TRUE, wake |-> <<>>]
    ELSE IF Len(q.waiters) > 0
    THEN [q |-> [q EXCEPT !.waiters = Tail(q.waiters)], threw |-> FALSE,
          wake |-> <<[w |-> Head(q.waiters), res |-> Value(v)]>>]
    ELSE [q |-> [q EXCEPT !.values = <<v>> \o q.values], threw |-> FALSE,
          wake |-> <<>>]

\* A push that returns silently on a closed queue.
QPushSilentWhenClosed(q, v) ==
    IF q.closed THEN [q |-> q, threw |-> FALSE, wake |-> <<>>]
    ELSE IF Len(q.waiters) > 0
    THEN [q |-> [q EXCEPT !.waiters = Tail(q.waiters)], threw |-> FALSE,
          wake |-> <<[w |-> Head(q.waiters), res |-> Value(v)]>>]
    ELSE [q |-> [q EXCEPT !.values = Append(q.values, v)], threw |-> FALSE,
          wake |-> <<>>]

\* push(value): q is the queue afterwards, threw whether it raised, wake the
\* waiters it settled.
QPush(q, v) ==
    IF q.closed THEN [q |-> q, threw |-> TRUE, wake |-> <<>>]
    ELSE IF Len(q.waiters) > 0
    THEN [q |-> [q EXCEPT !.waiters = Tail(q.waiters)], threw |-> FALSE,
          wake |-> <<[w |-> Head(q.waiters), res |-> Value(v)]>>]
    ELSE [q |-> [q EXCEPT !.values = Append(q.values, v)], threw |-> FALSE,
          wake |-> <<>>]

\* A close() that marks the queue closed and leaves its waiters pending.
QCloseKeepsWaiters(q) == [q |-> [q EXCEPT !.closed = TRUE], wake |-> <<>>]

\* close()
QClose(q) ==
    IF q.closed THEN [q |-> q, wake |-> <<>>]
    ELSE [q |-> [q EXCEPT !.closed = TRUE, !.waiters = <<>>],
          wake |-> WakeAll(q.waiters, Done)]

\* A fail(error) that replaces the error of a queue that is closed already.
QFailOverwrites(q, e) ==
    [q |-> [q EXCEPT !.closed = TRUE, !.error = e, !.waiters = <<>>],
     wake |-> WakeAll(q.waiters, Rejected(e))]

\* fail(error)
QFail(q, e) ==
    IF q.closed THEN [q |-> q, wake |-> <<>>]
    ELSE [q |-> [q EXCEPT !.closed = TRUE, !.error = e, !.waiters = <<>>],
          wake |-> WakeAll(q.waiters, Rejected(e))]

\* A next() that reports the end of a closed queue before it looks at the
\* buffer.
QNextEndsBeforeDraining(q, w) ==
    IF q.error # NoError THEN [q |-> q, res |-> Rejected(q.error)]
    ELSE IF q.closed THEN [q |-> q, res |-> Done]
    ELSE IF Len(q.values) > 0
    THEN [q |-> [q EXCEPT !.values = Tail(q.values)], res |-> Value(Head(q.values))]
    ELSE [q |-> [q EXCEPT !.waiters = Append(q.waiters, w)],
          res |-> [kind |-> "wait", v |-> ""]]

\* iterator.next() called by w: res is "wait" when w was put among the waiters.
QNext(q, w) ==
    IF q.error # NoError THEN [q |-> q, res |-> Rejected(q.error)]
    ELSE IF Len(q.values) > 0
    THEN [q |-> [q EXCEPT !.values = Tail(q.values)], res |-> Value(Head(q.values))]
    ELSE IF q.closed THEN [q |-> q, res |-> Done]
    ELSE [q |-> [q EXCEPT !.waiters = Append(q.waiters, w)],
          res |-> [kind |-> "wait", v |-> ""]]

(***************************************************************************)
(* Hook callback output (query.ts, convertHookOutputForCli)                *)
(***************************************************************************)
\* Field names of a hook callback's output record.  HookJSONOutput is
\* Record<string, unknown>: any name may occur.
HookKeys == {"async_", "async", "continue_", "continue", "extra", "extra_"}

\* Field values.
HookValues == {"true", "false"}

\* Records of at most n fields as Object.entries lists them: pairs of key and
\* value in insertion order, every key once.
RECURSIVE Records(_)
Records(n) ==
    IF n = 0 THEN {<<>>}
    ELSE LET shorter == Records(n - 1) IN
         shorter \cup {Append(r, <<k, v>>) :
                          r \in {x \in shorter : Len(x) = n - 1},
                          k \in HookKeys, v \in HookValues}

\* The keys of a record.
Keys(r) == {r[i][1] : i \in DOMAIN r}

\* Records whose keys are distinct.
HookOutputs == {r \in Records(MaxFields) : Cardinality(Keys(r)) = Len(r)}

\* r[key], for a key of r.
Get(r, key) == r[CHOOSE i \in DOMAIN r : r[i][1] = key][2]

\* r after r[key] = value: an existing key keeps its place.
Put(r, key, value) ==
    IF key \in Keys(r)
    THEN [i \in DOMAIN r |-> IF r[i][1] = key THEN <<key, value>> ELSE r[i]]
    ELSE Append(r, <<key, value>>)

\* A renaming that strips the trailing underscore of every key that has one.
ConvertKeyStripping(key) ==
    CASE key = "async_" -> "async"
      [] key = "continue_" -> "continue"
      [] key = "extra_" -> "extra"
      [] OTHER -> key

\* The key convertHookOutputForCli stores the value of key under.
ConvertKey(key) ==
    IF key = "async_" THEN "async"
    ELSE IF key = "continue_" THEN "continue"
    ELSE key

\* convertHookOutputForCli(output), continued from the entries after the
\* first i with converted built so far.
RECURSIVE ConvertFrom(_, _, _)
ConvertFrom(output, i, converted) ==
    IF i > Len(output) THEN converted
    ELSE ConvertFrom(output, i + 1,
                     Put(converted, ConvertKey(output[i][1]), output[i][2]))

\* convertHookOutputForCli(output)
ConvertHookOutputForCli(output) == ConvertFrom(output, 1, <<>>)

(***************************************************************************)
(* Values on the wire                                                      *)
(***************************************************************************)
\* Subtypes sendControlRequest is called with (initialize, interrupt,
\* setPermissionMode, setModel).
CallSubtypes == {"initialize", "interrupt", "set_permission_mode", "set_model"}

\* request.subtype of an inbound control request; "" is a missing subtype and
\* "other" stands for any subtype the engine does not know.
RequestSubtypes == {"", "can_use_tool", "hook_callback", "mcp_message", "other"}

\* request.server_name of an mcp_message request whose bridge is modelled in
\* full: of these only "demo" is registered in sdkMcpServers.  The second
\* registered server, "aux", is modelled by the outcome of its exchanges.
ServerNames == {"", "demo", "ghost"}
sdkMcpServers == {"demo", "aux"}

\* The id of a JSON-RPC message: absent, null, the numbers 1 and 2, and the
\* strings "1" and "2".
RpcIds == {"absent", "null", "n1", "n2", "s1", "s2"}

\* String(id) of an id that is neither absent nor null.
StringOf(id) == IF id \in {"n1", "s1"} THEN "1" ELSE "2"

\* The identifier classes waitForResponse compares: absent and null are one.
NormalizeId(id) == IF id \in {"absent", "null"} THEN "null" ELSE StringOf(id)

\* Ids of the requests the peer sends through mcp_message, and of the messages
\* the service sends back.
RequestRpcIds == {"absent", "n1", "n2"}
ReplyRpcIds == {"absent", "n1", "s2"}

\* A control_response line written by a handler: its request_id, its subtype
\* and the response payload or the error message.
ResponseLine(h, subtype, payload) ==
    [type |-> "control_response", request_id |-> h, subtype |-> subtype,
     payload |-> payload]

\* A request line that says interrupt whatever the operation.
InterruptLine(id, subtype) ==
    [type |-> "control_request", request_id |-> id, subtype |-> "interrupt",
     payload |-> ""]

\* A control_request line written by sendControlRequest.
RequestLine(id, subtype) ==
    [type |-> "control_request", request_id |-> id, subtype |-> subtype,
     payload |-> ""]

(***************************************************************************)
(* Initial state: a constructed Query in streaming mode, nothing started   *)
(***************************************************************************)
NoCaller == [pc |-> "unused", subtype |-> "", promise |-> "pending", value |-> "",
             result |-> "", wrapped |-> FALSE]
NoHandler == [pc |-> "unused", subtype |-> "", att |-> "none", raised |-> "none",
              payload |-> "", rpcId |-> "absent", waitOn |-> 0, reply |-> ""]

\* The state after `new Query(options)`; permission tells whether
\* options.canUseTool is given, streaming is options.isStreamingMode.  The
\* transport was connected before: it holds its process.
QueryConstructed(permission, streaming) ==
    /\ canUseTool = permission
    /\ isStreamingMode = streaming
    /\ initializationResult = "null"
    /\ inputEnded = FALSE
    /\ child = TRUE
    /\ closing = <<>>
    /\ closed = FALSE
    /\ messageQueue = NewAsyncQueue
    /\ pendingControlRequests = {}
    /\ hookCallbacks = {}
    /\ requestCounter = 0
    /\ readLoop = "none"
    /\ sdkMcpBridges = {}
    /\ callers = [c \in Calls |-> NoCaller]
    /\ handlers = [h \in Handlers |-> NoHandler]
    /\ nHandlers = 0
    /\ closePc = "none"
    /\ written = EmptyBag
    /\ nRead = 0
    /\ consumer = "idle"
    /\ received = <<>>
    /\ connected = FALSE
    /\ queue = 0
    /\ tClosed = FALSE
    /\ outboundQueue = NewAsyncQueue
    /\ onerror = FALSE
    /\ wfr = [h \in Handlers |-> "none"]
    /\ connectCalls = 0
    /\ nSends = 0
    /\ log = [settles |-> [c \in Calls |-> 0],
              settledBy |-> [c \in Calls |-> <<>>],
              bridgesCreated |-> 0, failedConnects |-> 0,
              loopError |-> "none", closedFirst |-> FALSE,
              timedOut |-> {}, afterTimeout |-> {}, repliedTo |-> {},
              startCalls |-> 0, loopsLaunched |-> 0,
              closeCalls |-> 0, closeDone |-> 0, bridgeCloses |-> <<>>,
              bridgeOks |-> <<>>, teardowns |-> 0, readWhenClosed |-> 0,
              thrown |-> <<>>,
              returned |-> <<>>,
              hookRequests |-> <<>>,
              threwIn |-> {}, reported |-> {}, closedWaiting |-> {}]

\* A new AsyncQueue on which nothing was called yet.
QueueFresh ==
    /\ aq = NewAsyncQueue
    /\ pulls = <<>>
    /\ qlog = [pushes |-> 0, pushed |-> <<>>, threw |-> 0, ends |-> <<>>,
               settled |-> <<>>]

\* No hook callback has returned yet.
HookFresh == hook = [pc |-> "idle", output |-> <<>>, converted |-> <<>>]

\* The fields of a ClaudeAgentSDKClient before it is constructed.  The
\* options say whether canUseTool and permissionPromptToolName are given;
\* customTransport whether a transport was passed to the constructor;
\* queryInstance and transport are 0 when undefined, else the number of the
\* engine; the rest records the calls made and how they ended.
NoClient ==
    [pc |-> "none", canUseTool |-> FALSE, permissionPromptToolName |-> FALSE,
     customTransport |-> FALSE, queryInstance |-> 0, transport |-> 0,
     prompt |-> "undefined", connectCalls |-> 0, transportConnects |-> 0,
     engines |-> 0, result |-> "none", op |-> "none", opResult |-> "none"]

\* No client was constructed.
ClientFresh == client = NoClient

\* An engine constructed beside a fresh queue, with no hook output and no
\* client.
ConstructedIn(permission, streaming) ==
    /\ QueryConstructed(permission, streaming)
    /\ QueueFresh
    /\ HookFresh
    /\ ClientFresh

\* The same in streaming mode, the default.
Constructed(permission) == ConstructedIn(permission, TRUE)

Init == \E permission \in BOOLEAN, streaming \in BOOLEAN :
            ConstructedIn(permission, streaming)

(***************************************************************************)
(* The consumer of receiveMessages()                                       *)
(***************************************************************************)
\* The effect of a messageQueue operation on the queue and on the consumer it
\* settles (the model has one consumer, so at most one waiter).
ApplyMessageQueue(r) ==
    /\ messageQueue' = r.q
    /\ IF r.wake = <<>>
       THEN UNCHANGED <<consumer, received>>
       ELSE /\ consumer' = "idle"
            /\ received' = Append(received, r.wake[1].res)

\* One pull of the for-await over receiveMessages(): iterator.next().
Pull ==
    /\ consumer = "idle"
    /\ Len(received) < MaxPulls
    /\ LET r == QNext(messageQueue, 1) IN
       /\ messageQueue' = r.q
       /\ IF r.res.kind = "wait"
          THEN consumer' = "waiting" /\ UNCHANGED received
          ELSE received' = Append(received, r.res) /\ UNCHANGED consumer
    /\ UNCHANGED <<unitVars, extVars, canUseTool, closed, pendingControlRequests, hookCallbacks,
                   requestCounter, readLoop, sdkMcpBridges, taskVars, written, nRead,
                   bridgeVars, log>>

(***************************************************************************)
(* Engine-initiated control requests                                       *)
(***************************************************************************)
\* The registry once the wait of request id has ended (the finally block).
PendingAfterWait(id) == pendingControlRequests \ {id}

\* A request id that repeats the last one generated.
RepeatedRequestId == IF requestCounter = 0 THEN 1 ELSE requestCounter

\* The request id sendControlRequest generates: the incremented counter (the
\* random suffix of the source's id is left out).
NextRequestId == requestCounter + 1

\* A registry in which the request is not entered before its line is written.
PendingWithoutRequest(id) == pendingControlRequests

\* The registry once the promise of request id was created: its executor runs
\* at once and enters the id, before the write of the request line begins.
PendingWithRequest(id) == pendingControlRequests \cup {id}

\* A sendControlRequest without its mode check.
ControlRequestsAlwaysAllowed == TRUE

\* The mode check of sendControlRequest.
ControlRequestsAllowed == isStreamingMode

\* sendControlRequest in streaming mode, up to its first await: the request
\* id is generated, the pending correlation registered and the write of the
\* request line begun.  initialize() first registers the configured hook
\* callback under a fresh id.
SendControlRequest(subtype) ==
    /\ ControlRequestsAllowed
    /\ requestCounter < MaxCalls
    /\ LET id == NextRequestId IN
       /\ requestCounter' = id
       /\ pendingControlRequests' = PendingWithRequest(id)
       /\ callers' = [callers EXCEPT ![id] = [NoCaller EXCEPT !.pc = "writing",
                                                              !.subtype = subtype]]
       /\ hookCallbacks' = IF subtype = "initialize" THEN hookCallbacks \cup {id}
                           ELSE hookCallbacks
    /\ UNCHANGED <<unitVars, extVars, canUseTool, closed, messageQueue, readLoop, sdkMcpBridges,
                   handlers, nHandlers, closePc, ioVars, bridgeVars, log>>

\* transport.write of the request line returns (ok) or throws.  The write is
\* awaited outside the try/finally, so a throw leaves the function at once.
CallerWriteReturn(c, ok) ==
    /\ callers[c].pc = "writing"
    /\ IF ok
       THEN /\ written' = written (+) SetToBag({RequestLine(c, callers[c].subtype)})
            /\ callers' = [callers EXCEPT ![c].pc = "awaiting"]
       ELSE /\ callers' = [callers EXCEPT ![c].pc = "writeFailed",
                                          ![c].result = "E_write"]
            /\ UNCHANGED written
    /\ UNCHANGED <<unitVars, extVars, queryVars, handlers, nHandlers, closePc, nRead, consumer,
                   received, bridgeVars, log>>

\* await responsePromise ends: return the payload, or throw the error wrapped
\* as a control-request failure; the registration is removed either way.
CallerSettle(c) ==
    /\ callers[c].pc = "awaiting"
    /\ callers[c].promise # "pending"
    /\ callers' = [callers EXCEPT
          ![c].pc = IF callers[c].promise = "resolved" THEN "returned" ELSE "failed",
          ![c].result = callers[c].value,
          ![c].wrapped = (callers[c].promise = "rejected")]
    /\ pendingControlRequests' = PendingAfterWait(c)
    /\ initializationResult' =
          IF callers[c].subtype = "initialize" /\ callers[c].promise = "resolved"
          THEN callers[c].value ELSE initializationResult
    /\ UNCHANGED <<unitVars, isStreamingMode, inputEnded, child, closing, canUseTool, closed,
                   messageQueue, hookCallbacks, requestCounter, readLoop,
                   sdkMcpBridges, handlers, nHandlers, closePc, ioVars, bridgeVars,
                   log>>

\* Operations called on an engine that is not in streaming mode.  initialize()
\* caches and returns the empty result (null) before anything else;
\* interrupt(), setPermissionMode() and setModel() reach sendControlRequest,
\* which throws the mode-mismatch error before it generates an id; streamInput
\* throws it before it reads its stream.
NonStreamingOps == {"initialize", "interrupt", "set_permission_mode", "set_model",
                    "stream_input"}

\* An initialize() without its mode check.
InitializeNeverSkips == FALSE

\* The mode check of initialize(): outside streaming mode the control flow is
\* skipped.
InitializeSkips == ~isStreamingMode

NonStreamingCall(op) ==
    /\ ~isStreamingMode
    /\ Len(log.returned) + Len(log.thrown) < MaxCalls
    /\ IF op = "initialize" /\ InitializeSkips
       THEN /\ initializationResult' = "null"
            /\ log' = [log EXCEPT !.returned = Append(@, "null")]
            /\ UNCHANGED hookCallbacks
       ELSE /\ op = "stream_input" \/ ~ControlRequestsAllowed
            /\ hookCallbacks' = IF op = "initialize"
                                THEN hookCallbacks \cup {requestCounter + 1}
                                ELSE hookCallbacks
            /\ log' = [log EXCEPT !.thrown = Append(@, <<op, "mode_mismatch">>)]
            /\ UNCHANGED initializationResult
    /\ UNCHANGED <<unitVars, isStreamingMode, inputEnded, child, closing, canUseTool, closed,
                   messageQueue, pendingControlRequests, requestCounter, readLoop,
                   sdkMcpBridges, taskVars, ioVars, bridgeVars>>

\* getInitializationResult(): the cached field.
GetInitializationResult == initializationResult

\* A prompt message streamInput writes.
PromptLine == [type |-> "user", request_id |-> 0, subtype |-> "", payload |-> ""]

\* streamInput in streaming mode: one message of the stream is written to the
\* transport.  (A write that throws ends streamInput with nothing changed.)
StreamInputWrite ==
    /\ isStreamingMode
    /\ ~inputEnded
    /\ CopiesIn(PromptLine, written) < MaxPrompts
    /\ written' = written (+) SetToBag({PromptLine})
    /\ UNCHANGED <<unitVars, extVars, queryVars, taskVars, nRead, consumer, received, bridgeVars,
                   log>>

\* streamInput in streaming mode: the stream has ended and transport.endInput()
\* is called.
StreamInputEnd ==
    /\ isStreamingMode
    /\ ~inputEnded
    /\ inputEnded' = TRUE
    /\ UNCHANGED <<unitVars, isStreamingMode, initializationResult, child, closing, queryVars,
                   taskVars, ioVars, bridgeVars, log>>

(***************************************************************************)
(* The read loop                                                           *)
(***************************************************************************)
\* A start() that never finds a loop launched.
NeverLaunched == FALSE

\* Is readLoopPromise set: a read loop was launched (it may have ended).
ReadLoopLaunched == readLoop # "none"

\* start(): launches the read loop unless one was launched before.
Start ==
    /\ log.startCalls < MaxStarts
    /\ readLoop' = IF ReadLoopLaunched THEN readLoop ELSE "running"
    /\ log' = [log EXCEPT !.startCalls = @ + 1,
                          !.loopsLaunched = IF ReadLoopLaunched THEN @ ELSE @ + 1]
    /\ UNCHANGED <<unitVars, extVars, canUseTool, closed, messageQueue, pendingControlRequests,
                   hookCallbacks, requestCounter, sdkMcpBridges, taskVars, ioVars,
                   bridgeVars>>

\* A read loop that awaits each handler it dispatches before it takes the next
\* message.
ReadingAfterHandlers ==
    /\ readLoop = "running" /\ ~closed /\ nRead < MaxMsgs
    /\ \A h \in Handlers : handlers[h].pc \in {"unused", "done", "crashed"}

\* A read loop that classifies its next message whether or not the engine is
\* marked closed.
ReadingThoughClosed == readLoop = "running" /\ nRead < MaxMsgs

\* The read loop has a next message to classify: it is running and the engine
\* is not marked closed.
Reading == readLoop = "running" /\ ~closed /\ nRead < MaxMsgs

\* A registry that keeps the entry of id when its response is handled.
PendingKeptAfterResponse(id) == pendingControlRequests

\* The registry after a control response naming id was handled.
PendingAfterResponse(id) == pendingControlRequests \ {id}

\* A settlement that resolves the promise whatever the response's subtype.
SettledAlwaysResolved(subtype, body) == [promise |-> "resolved", value |-> body]

\* What the promise of a pending correlation is settled with.
SettledWith(subtype, body) ==
    IF subtype = "error"
    THEN [promise |-> "rejected", value |-> IF body = "absent" THEN "unknown" ELSE body]
    ELSE [promise |-> "resolved", value |-> IF body = "absent" THEN "{}" ELSE body]

\* handleControlResponse: settle and remove the pending correlation of id, or
\* do nothing when there is none.
HandleControlResponse(id, subtype, body) ==
    IF id \notin pendingControlRequests
    THEN UNCHANGED <<pendingControlRequests, callers, log>>
    ELSE /\ pendingControlRequests' = PendingAfterResponse(id)
         /\ callers' = IF callers[id].promise = "pending"
                       THEN [callers EXCEPT
                               ![id].promise = SettledWith(subtype, body).promise,
                               ![id].value = SettledWith(subtype, body).value]
                       ELSE callers
         /\ log' = [log EXCEPT !.settles[id] = @ + 1,
                                !.settledBy[id] = <<subtype, body>>]

\* The loop takes a control_response message.
ReadControlResponse(id, subtype, body) ==
    /\ Reading
    /\ nRead' = nRead + 1
    /\ HandleControlResponse(id, subtype, body)
    /\ UNCHANGED <<unitVars, extVars, canUseTool, closed, messageQueue, hookCallbacks, requestCounter,
                   readLoop, sdkMcpBridges, handlers, nHandlers, closePc, written,
                   consumer, received, bridgeVars>>

\* The k-th message of the transport, when it is a data message.
DataValue(k) == <<"d1", "d2", "d3", "d4", "d5", "d6", "d7", "d8">>[k]

\* The loop takes a data message and pushes it to the inbound channel.  A push
\* that throws is caught: fail (a no-op on a closed queue), then close.
ReadDataMessage ==
    /\ Reading
    /\ nRead' = nRead + 1
    /\ LET r == QPush(messageQueue, DataValue(nRead + 1)) IN
       IF r.threw
       THEN /\ readLoop' = "done"
            /\ ApplyMessageQueue(QClose(QFail(messageQueue, "E_push").q))
       ELSE /\ ApplyMessageQueue(r)
            /\ UNCHANGED readLoop
    /\ UNCHANGED <<unitVars, extVars, canUseTool, closed, pendingControlRequests, hookCallbacks,
                   requestCounter, sdkMcpBridges, taskVars, written, bridgeVars, log>>

\* The loop takes a control_cancel_request: ignored.
ReadCancelRequest ==
    /\ Reading
    /\ nRead' = nRead + 1
    /\ UNCHANGED <<unitVars, extVars, queryVars, taskVars, written, consumer, received, bridgeVars, log>>

\* The loop takes a message after close() marked the engine closed: it breaks,
\* and the finally block closes the inbound channel.
ReadWhenClosed ==
    /\ readLoop = "running"
    /\ closed
    /\ nRead < MaxMsgs
    /\ nRead' = nRead + 1
    /\ readLoop' = "done"
    /\ ApplyMessageQueue(QClose(messageQueue))
    /\ log' = [log EXCEPT !.readWhenClosed = @ + 1]
    /\ UNCHANGED <<unitVars, extVars, canUseTool, closed, pendingControlRequests, hookCallbacks,
                   requestCounter, sdkMcpBridges, taskVars, written, bridgeVars>>

\* The transport's message sequence ends.
ReadEnd ==
    /\ readLoop = "running"
    /\ readLoop' = "done"
    /\ ApplyMessageQueue(QClose(messageQueue))
    /\ UNCHANGED <<unitVars, extVars, canUseTool, closed, pendingControlRequests, hookCallbacks,
                   requestCounter, sdkMcpBridges, taskVars, written, nRead,
                   bridgeVars, log>>

\* An inbound channel that is only closed when the loop caught an error.
ChannelClosedOnLoopError(error) == QClose(messageQueue)

\* The inbound channel after the loop caught error: fail, then (finally) close.
ChannelAfterLoopError(error) ==
    LET f == QFail(messageQueue, error) IN
    [q |-> QClose(f.q).q, wake |-> f.wake \o QClose(f.q).wake]

\* Iterating the transport's message sequence throws error: an Error object
\* ("E_read") or the value undefined.
ReadThrow(error) ==
    /\ readLoop = "running"
    /\ readLoop' = "done"
    /\ ApplyMessageQueue(ChannelAfterLoopError(error))
    /\ log' = [log EXCEPT !.loopError = error, !.closedFirst = messageQueue.closed]
    /\ UNCHANGED <<unitVars, extVars, canUseTool, closed, pendingControlRequests, hookCallbacks,
                   requestCounter, sdkMcpBridges, taskVars, written, nRead,
                   bridgeVars>>

(***************************************************************************)
(* Control-request handlers                                                *)
(***************************************************************************)
\* A handler without its catch block: the error ends the task.
RaiseUncaught(rec, category) == [rec EXCEPT !.pc = "crashed", !.raised = category]

\* The handler's catch block: the error becomes the failure line, whose write
\* begins.
Raise(rec, category) ==
    [rec EXCEPT !.pc = "writing", !.att = "error", !.raised = category,
                !.payload = category]

\* The handler reached the end of its try block: the write of the success
\* line begins.
Succeed(rec, payload) ==
    [rec EXCEPT !.pc = "writing", !.att = "success", !.payload = payload]

\* The loop dispatches a handler task for a control request; rec is the state
\* of the task at its first await.
Dispatch(rec) ==
    /\ Reading
    /\ nRead' = nRead + 1
    /\ nHandlers' = nHandlers + 1
    /\ handlers' = [handlers EXCEPT ![nHandlers + 1] = rec]

\* A control request with a missing subtype ("") or an unsupported one.
ReadUnsupportedRequest(subtype) ==
    /\ Dispatch(Raise([NoHandler EXCEPT !.subtype = subtype], "protocol"))
    /\ UNCHANGED <<unitVars, extVars, queryVars, callers, closePc, written, consumer, received,
                   bridgeVars, log>>

\* can_use_tool: an error without a permission callback, else the callback is
\* invoked and awaited.
ReadCanUseTool ==
    /\ Dispatch(IF canUseTool
                THEN [NoHandler EXCEPT !.subtype = "can_use_tool", !.pc = "callback"]
                ELSE Raise([NoHandler EXCEPT !.subtype = "can_use_tool"], "protocol"))
    /\ UNCHANGED <<unitVars, extVars, queryVars, callers, closePc, written, consumer, received,
                   bridgeVars, log>>

\* A lookup that finds a callback under every id.
HookCallbackAlwaysFound(callbackId) == TRUE

\* this.hookCallbacks.get(callbackId) is a callback.
HookCallbackFound(callbackId) == callbackId \in hookCallbacks

\* hook_callback naming callback_id: an error when no such callback is
\* registered, else the callback is invoked and awaited.
ReadHookCallback(callbackId) ==
    /\ Dispatch(IF HookCallbackFound(callbackId)
                THEN [NoHandler EXCEPT !.subtype = "hook_callback", !.pc = "callback"]
                ELSE Raise([NoHandler EXCEPT !.subtype = "hook_callback"], "protocol"))
    /\ log' = [log EXCEPT !.hookRequests = Append(@, [h |-> nHandlers + 1,
                                                      id |-> callbackId])]
    /\ UNCHANGED <<unitVars, extVars, queryVars, callers, closePc, written, consumer, received,
                   bridgeVars>>

\* A handler task that has ended, normally ("done") or with an exception
\* nothing catches ("crashed"); its locals are gone, but for the id a
\* waitForResponse invocation it left behind still compares with.
Ended(rec, how) == [NoHandler EXCEPT !.pc = how, !.rpcId = rec.rpcId]

\* What a callback may do: canUseTool returns an Allow, a Deny or some other
\* shape; a hook callback returns its output; either may throw an Error, or
\* throw (reject with) null or undefined.
CallbackOutcomes(subtype) ==
    IF subtype = "can_use_tool"
    THEN {"allow", "deny", "unknown", "throw", "throw_nullish"}
    ELSE {"hook_output", "throw", "throw_nullish"}

\* The handler after its callback settled with outcome.  The catch block reads
\* error.message, which itself throws when the thrown value is null or
\* undefined: the task then ends without writing.
AfterCallback(rec, outcome) ==
    CASE outcome \in {"allow", "deny", "hook_output"} -> Succeed(rec, outcome)
      [] outcome = "unknown" -> Raise(rec, "protocol")
      [] outcome = "throw" -> Raise(rec, "callback")
      [] OTHER -> Ended(rec, "crashed")

\* The permission or hook callback of handler h settles.
CallbackReturn(h, outcome) ==
    /\ handlers[h].pc = "callback"
    /\ outcome \in CallbackOutcomes(handlers[h].subtype)
    /\ handlers' = [handlers EXCEPT ![h] = AfterCallback(handlers[h], outcome)]
    /\ UNCHANGED <<unitVars, extVars, queryVars, callers, nHandlers, closePc, ioVars, bridgeVars, log>>

\* The handler after transport.write of its response line threw: a failed
\* success write is caught and the failure line written; a failed failure
\* write ends the task with the error.
AfterWriteThrew(rec) ==
    IF rec.att = "success"
    THEN [rec EXCEPT !.att = "error", !.raised = "write", !.payload = "write"]
    ELSE Ended(rec, "crashed")

\* transport.write of handler h's response line returns (ok) or throws.
WriteReturn(h, ok) ==
    /\ handlers[h].pc = "writing"
    /\ IF ok
       THEN /\ written' = written (+) SetToBag({ResponseLine(h, handlers[h].att,
                                                              handlers[h].payload)})
            /\ handlers' = [handlers EXCEPT ![h] = Ended(handlers[h], "done")]
       ELSE /\ handlers' = [handlers EXCEPT ![h] = AfterWriteThrew(handlers[h])]
            /\ UNCHANGED written
    /\ UNCHANGED <<unitVars, extVars, queryVars, callers, nHandlers, closePc, nRead, consumer, received,
                   bridgeVars, log>>

(***************************************************************************)
(* McpServerBridge and InMemoryMcpTransport                                *)
(***************************************************************************)
\* Has the promise McpServerBridge.queue refers to settled: the initial
\* resolved promise (0), or the processRequest of handler k, which settles
\* when that handler goes on to write its response.
Settled(k) == k = 0 \/ handlers[k].pc \in {"writing", "done", "crashed"}

\* transport.deliver(message) is called: it throws on a closed transport, else
\* invokes the service's onmessage handler and awaits it.
DeliverCall(rec) ==
    IF tClosed THEN Raise(rec, "bridge") ELSE [rec EXCEPT !.pc = "delivering"]

\* processRequest up to its first suspension: ensureConnected returns at once
\* on a connected bridge and deliver is called; otherwise instance.connect is
\* invoked and awaited.
ProcessRequestBegin(rec) ==
    IF connected THEN DeliverCall(rec) ELSE [rec EXCEPT !.pc = "connecting"]

\* The history kept when handler h's processRequest begins.
LogBegin(h) ==
    [log EXCEPT !.afterTimeout =
        IF log.timedOut # {} THEN @ \cup {h} ELSE @]

\* A processRequest that invokes connect whether or not the bridge is
\* connected.
HandleRequestBeginReconnecting(h, rec) ==
    /\ handlers' = [handlers EXCEPT ![h] = [rec EXCEPT !.pc = "connecting"]]
    /\ queue' = h
    /\ connectCalls' = connectCalls + 1

\* handleRequest once `await this.queue` is over: processRequest is started
\* and queue replaced by a promise following it.
HandleRequestBegin(h, rec) ==
    /\ handlers' = [handlers EXCEPT ![h] = ProcessRequestBegin(rec)]
    /\ queue' = h
    /\ connectCalls' = IF connected THEN connectCalls ELSE connectCalls + 1

\* An mcp_message handler that takes every request for a valid one.
NeverInvalid(serverName, message) == FALSE

\* The protocol errors of an mcp_message request: an empty or missing
\* server_name, a message that is missing or no object, and a server name
\* with neither a bridge nor a registered instance.
InvalidMcpRequest(serverName, message) ==
    \/ serverName = ""
    \/ message = "missing"
    \/ serverName \notin sdkMcpBridges \cup sdkMcpServers

\* mcp_message: protocol errors first, then getOrCreateMcpServerBridge, then
\* bridge.handleRequest, which awaits the bridge's queue.  On a queue that is
\* already settled the await is over before the read loop takes its next
\* message.
ReadMcpMessage(serverName, message) ==
    LET h == nHandlers + 1
        rec == [NoHandler EXCEPT !.subtype = "mcp_message",
                                 !.rpcId = IF message = "missing" THEN "absent"
                                           ELSE message]
        invalid == InvalidMcpRequest(serverName, message)
        created == ~invalid /\ serverName \notin sdkMcpBridges
    IN
    /\ Reading
    /\ nRead' = nRead + 1
    /\ nHandlers' = h
    /\ sdkMcpBridges' = IF invalid THEN sdkMcpBridges
                        ELSE sdkMcpBridges \cup {serverName}
    /\ IF invalid
       THEN /\ handlers' = [handlers EXCEPT ![h] = Raise(rec, "protocol")]
            /\ UNCHANGED <<queue, connectCalls, log>>
       ELSE IF Settled(queue)
       THEN /\ HandleRequestBegin(h, rec)
            /\ log' = [LogBegin(h) EXCEPT
                         !.bridgesCreated = IF created THEN @ + 1 ELSE @]
       ELSE /\ handlers' = [handlers EXCEPT
                              ![h] = [rec EXCEPT !.pc = "waitQueue", !.waitOn = queue]]
            /\ log' = [log EXCEPT !.bridgesCreated = IF created THEN @ + 1 ELSE @]
            /\ UNCHANGED <<queue, connectCalls>>
    /\ UNCHANGED <<unitVars, extVars, canUseTool, closed, messageQueue, pendingControlRequests,
                   hookCallbacks, requestCounter, readLoop, callers, closePc, written,
                   consumer, received, connected, tClosed, outboundQueue, onerror,
                   wfr, nSends>>

\* The queue promise handler h awaited in handleRequest has settled.
HandleRequestResume(h) ==
    /\ handlers[h].pc = "waitQueue"
    /\ Settled(handlers[h].waitOn)
    /\ HandleRequestBegin(h, handlers[h])
    /\ log' = LogBegin(h)
    /\ UNCHANGED <<unitVars, extVars, queryVars, callers, nHandlers, closePc, ioVars, connected, tClosed,
                   outboundQueue, onerror, wfr, nSends>>

\* instance.connect(transport) returns or throws.  On return the bridge is
\* marked connected and the message delivered; the service has registered its
\* onmessage handler and, if it chose to, an onerror handler.
ConnectReturn(h, ok, registersOnerror) ==
    /\ handlers[h].pc = "connecting"
    /\ IF ok
       THEN /\ connected' = TRUE
            /\ onerror' = registersOnerror
            /\ handlers' = [handlers EXCEPT ![h] = DeliverCall(handlers[h])]
            /\ UNCHANGED log
       ELSE /\ ~registersOnerror
            /\ handlers' = [handlers EXCEPT ![h] = Raise(handlers[h], "bridge")]
            /\ log' = [log EXCEPT !.failedConnects = @ + 1]
            /\ UNCHANGED <<connected, onerror>>
    /\ UNCHANGED <<unitVars, extVars, queryVars, callers, nHandlers, closePc, ioVars, queue, tClosed,
                   outboundQueue, wfr, connectCalls, nSends>>

\* A test that takes no request for a notification.
NeverNotification(rec) == FALSE

\* Is the request of rec a notification: message.id absent or null.
IsNotification(rec) == rec.rpcId \in {"absent", "null"}

\* A comparison that takes every pulled message for the answer.
MatchesAnything(rec, id) == TRUE

\* Does a pulled message answer the request of rec: the ids are equal after
\* normalisation to string.
Matches(rec, id) == NormalizeId(id) = NormalizeId(rec.rpcId)

\* The loop of waitForResponse for the request of rec, run by waiter h on
\* outbound queue q until it suspends or ends: every pulled message that does
\* not match is dropped.  outcome is "returned" (with the matching message v),
\* "closed" (the channel ended: "bridge closed" is thrown) or "waiting" (h is
\* now among the queue's waiters).  The awaits inside the loop are on promises
\* that are already settled, so the loop runs on before any other event.
RECURSIVE WaitForResponse(_, _, _)
WaitForResponse(q, h, rec) ==
    LET r == QNext(q, h) IN
    IF r.res.kind = "wait" THEN [q |-> r.q, outcome |-> "waiting", v |-> ""]
    ELSE IF r.res.kind # "value" THEN [q |-> r.q, outcome |-> "closed", v |-> ""]
    ELSE IF Matches(rec, r.res.v) THEN [q |-> r.q, outcome |-> "returned", v |-> r.res.v]
    ELSE WaitForResponse(r.q, h, rec)

\* The same loop resumed by a wake-up: res is what the waiter's pull settled
\* with.
WaitForResponseResumed(q, h, rec, res) ==
    IF res.kind # "value" THEN [q |-> q, outcome |-> "closed", v |-> ""]
    ELSE IF Matches(rec, res.v) THEN [q |-> q, outcome |-> "returned", v |-> res.v]
    ELSE WaitForResponse(q, h, rec)

\* A wait that goes on when the outbound channel signals its end.
AfterWaitIgnoringClose(rec, w) ==
    IF rec.pc # "waitResp" \/ w.outcome # "returned" THEN rec
    ELSE [Succeed(rec, "mcp") EXCEPT !.reply = w.v]

\* processRequest of a handler that is still waiting under the timeout, once
\* its waitForResponse ended with outcome w.
AfterWaitForResponse(rec, w) ==
    IF rec.pc # "waitResp" \/ w.outcome = "waiting" THEN rec
    ELSE IF w.outcome = "returned" THEN [Succeed(rec, "mcp") EXCEPT !.reply = w.v]
    ELSE Raise(rec, "bridge")

\* A deliver that never hands an error to onerror.
OnerrorNeverTakes == FALSE

\* `if (this.onerror)` in deliver's catch block: an onerror handler is set.
OnerrorTakes == onerror

\* The service's onmessage handler returns or throws.  A throw goes to onerror
\* when registered, and deliver then returns normally; otherwise deliver
\* re-throws.  After deliver, a notification is answered at once with a
\* synthesized reply; any other request starts waitForResponse under the
\* timeout.
DeliverReturn(h, threw) ==
    /\ handlers[h].pc = "delivering"
    /\ log' = [log EXCEPT
          !.threwIn = IF threw THEN @ \cup {h} ELSE @,
          !.reported = IF threw /\ OnerrorTakes THEN @ \cup {h} ELSE @]
    /\ IF threw /\ ~OnerrorTakes
       THEN /\ handlers' = [handlers EXCEPT ![h] = Raise(handlers[h], "service")]
            /\ UNCHANGED <<outboundQueue, wfr>>
       ELSE IF IsNotification(handlers[h])
       THEN /\ handlers' = [handlers EXCEPT
                              ![h] = [Succeed(handlers[h], "mcp") EXCEPT !.reply = "null"]]
            /\ UNCHANGED <<outboundQueue, wfr>>
       ELSE LET w == WaitForResponse(outboundQueue, h, handlers[h]) IN
            /\ outboundQueue' = w.q
            /\ wfr' = [wfr EXCEPT ![h] = w.outcome]
            /\ handlers' = [handlers EXCEPT
                  ![h] = AfterWaitForResponse([handlers[h] EXCEPT !.pc = "waitResp"], w)]
    /\ UNCHANGED <<unitVars, extVars, queryVars, callers, nHandlers, closePc, ioVars, connected, queue,
                   tClosed, onerror, connectCalls, nSends>>

\* The service's onmessage handler throws and the onerror handler, called
\* with the error inside deliver's catch block, throws in turn: deliver ends
\* with what onerror threw.
DeliverOnerrorThrows(h) ==
    /\ handlers[h].pc = "delivering"
    /\ OnerrorTakes
    /\ log' = [log EXCEPT !.threwIn = @ \cup {h}, !.reported = @ \cup {h}]
    /\ handlers' = [handlers EXCEPT ![h] = Raise(handlers[h], "onerror")]
    /\ UNCHANGED <<unitVars, extVars, queryVars, callers, nHandlers, closePc, ioVars, bridgeVars>>

\* The timer of waitWithTimeout fires while waitForResponse is still waiting
\* for a message: processRequest fails with the timeout.  Nothing stops the
\* waitForResponse invocation, which stays among the queue's waiters.
Timeout(h) ==
    /\ handlers[h].pc = "waitResp"
    /\ wfr[h] = "waiting"
    /\ handlers' = [handlers EXCEPT ![h] = Raise(handlers[h], "timeout")]
    /\ log' = [log EXCEPT !.timedOut = @ \cup {h}]
    /\ UNCHANGED <<unitVars, extVars, queryVars, callers, nHandlers, closePc, ioVars, bridgeVars>>

\* The handlers whose request is with the service or waits for its reply, and
\* which a message with this id would answer.
Answered(id) ==
    {h \in Handlers : /\ handlers[h].pc \in {"delivering", "waitResp"}
                      /\ ~IsNotification(handlers[h])
                      /\ Matches(handlers[h], id)}

\* The service calls transport.send(message): the message is pushed on the
\* outbound queue, which buffers it or hands it to the longest-waiting
\* waitForResponse.  The service holds the transport from the first connect
\* call on; send on a closed transport throws back to the service.
ServiceSend(id) ==
    /\ connectCalls > 0
    /\ ~tClosed
    /\ nSends < MaxSends
    /\ nSends' = nSends + 1
    /\ LET r == QPush(outboundQueue, id) IN
       IF r.wake = <<>>
       THEN /\ outboundQueue' = r.q
            /\ UNCHANGED <<wfr, handlers>>
       ELSE LET h == r.wake[1].w
                w == WaitForResponseResumed(r.q, h, handlers[h], r.wake[1].res) IN
            /\ outboundQueue' = w.q
            /\ wfr' = [wfr EXCEPT ![h] = w.outcome]
            /\ handlers' = [handlers EXCEPT ![h] = AfterWaitForResponse(handlers[h], w)]
    /\ log' = [log EXCEPT !.repliedTo = @ \cup Answered(id)]
    /\ UNCHANGED <<unitVars, extVars, queryVars, callers, nHandlers, closePc, ioVars, connected, queue,
                   tClosed, onerror, connectCalls>>

\* An mcp_message request for the server "aux": its bridge is created when
\* missing and the message handed to it; the handler awaits the exchange.
ReadMcpMessageAux ==
    /\ Dispatch([NoHandler EXCEPT !.subtype = "mcp_message", !.pc = "auxExchange"])
    /\ sdkMcpBridges' = sdkMcpBridges \cup {"aux"}
    /\ UNCHANGED <<unitVars, extVars, canUseTool, closed, messageQueue, pendingControlRequests,
                   hookCallbacks, requestCounter, readLoop, callers, closePc, written,
                   consumer, received, bridgeVars, log>>

\* The exchange with "aux" ends: with a reply, or with an error (a throwing
\* service, the timeout, the bridge closed).
AuxReturn(h, ok) ==
    /\ handlers[h].pc = "auxExchange"
    /\ handlers' = [handlers EXCEPT ![h] = IF ok THEN Succeed(handlers[h], "mcp")
                                           ELSE Raise(handlers[h], "service")]
    /\ UNCHANGED <<unitVars, extVars, queryVars, callers, nHandlers, closePc, ioVars, bridgeVars, log>>

(***************************************************************************)
(* close()                                                                 *)
(***************************************************************************)
\* McpServerBridge.close() closes the in-memory transport (a no-op when it is
\* closed already): the outbound queue is closed and every waitForResponse
\* waiting on it ends with "bridge closed".
Woken(wake) == {wake[i].w : i \in DOMAIN wake}

BridgeTransportClose ==
    LET r == IF tClosed THEN [q |-> outboundQueue, wake |-> <<>>]
             ELSE QClose(outboundQueue) IN
    /\ tClosed' = TRUE
    /\ outboundQueue' = r.q
    /\ wfr' = [h \in Handlers |-> IF h \in Woken(r.wake) THEN "closed" ELSE wfr[h]]
    /\ handlers' = [h \in Handlers |->
          IF h \in Woken(r.wake)
          THEN AfterWaitForResponse(handlers[h], [outcome |-> "closed", v |-> ""])
          ELSE handlers[h]]

\* The history kept when bridge b is closed: the requests whose wait for a
\* reply the close ends.
WaitEndedByClose(b) ==
    IF b = "demo" /\ ~tClosed
    THEN {h \in Woken(QClose(outboundQueue).wake) : handlers[h].pc = "waitResp"}
    ELSE {}

\* bridge.close() of the entry b up to its first suspension: the in-memory
\* transport is closed at once, the instance's close() awaited.  The exchange
\* with the server "aux" is not modelled beyond its outcome, nor is its
\* transport.
BridgeCloseBegin(b) ==
    IF b = "demo" THEN BridgeTransportClose
    ELSE UNCHANGED <<tClosed, outboundQueue, wfr, handlers>>

\* The orders in which the entries S can stand in the bridge map (its insertion
\* order; the model keeps the keys only, so every order is tried).
Orders(S) ==
    {o \in [1..Cardinality(S) -> S] : \A i, j \in DOMAIN o : i # j => o[i] # o[j]}

\* A transport whose close() tears down whether or not it holds a process.
TearsDownAgain == BOOLEAN

\* SubprocessCLITransport.close(): without a process it returns at once;
\* otherwise the teardown returns (TRUE) or throws (FALSE).
TransportCloseOutcomes == IF child THEN BOOLEAN ELSE {TRUE}

\* close() up to its first suspension: the engine is marked closed, the
\* inbound channel closed, the bridge map emptied and the first bridge's
\* close begun; without bridges transport.close() is called.  close() can be
\* called again once an earlier call has ended.
CloseBegin ==
    /\ closePc \in {"none", "done", "threw"}
    /\ log.closeCalls < MaxCloses
    /\ closed' = TRUE
    /\ ApplyMessageQueue(QClose(messageQueue))
    /\ sdkMcpBridges' = {}
    /\ \E order \in Orders(sdkMcpBridges) :
          /\ closing' = order
          /\ IF order # <<>>
             THEN /\ BridgeCloseBegin(order[1])
                  /\ closePc' = "bridges"
                  /\ log' = [log EXCEPT !.closeCalls = @ + 1,
                                        !.bridgeCloses = Append(@, order[1]),
                                        !.closedWaiting = @ \cup WaitEndedByClose(order[1])]
             ELSE /\ closePc' = "transport"
                  /\ log' = [log EXCEPT !.closeCalls = @ + 1]
                  /\ UNCHANGED <<tClosed, outboundQueue, wfr, handlers>>
    /\ UNCHANGED <<unitVars, isStreamingMode, initializationResult, inputEnded, child, canUseTool,
                   pendingControlRequests, hookCallbacks, requestCounter,
                   readLoop, callers, nHandlers, written, nRead, connected,
                   queue, onerror, connectCalls, nSends>>

\* A bridge loop without its catch block: the error of a bridge's close()
\* leaves close().
BridgeCloseRaisesUncaught(ok) == ~ok

\* Does the outcome of a bridge's close() end close() with an error: the catch
\* block of the loop discards it.
BridgeCloseRaises(ok) == FALSE

\* The close() of the bridge in progress returns or throws (its transport's
\* onclose or its instance's close method; an instance without a close method
\* counts as returning).  The next bridge's close is begun, or
\* transport.close() called after the last one.
CloseBridgeReturn(ok) ==
    /\ closePc = "bridges"
    /\ ok \in BOOLEAN
    /\ IF BridgeCloseRaises(ok)
       THEN /\ closePc' = "threw"
            /\ closing' = <<>>
            /\ log' = [log EXCEPT !.bridgeOks = Append(@, ok)]
            /\ UNCHANGED <<tClosed, outboundQueue, wfr, handlers>>
       ELSE /\ closing' = Tail(closing)
            /\ IF Tail(closing) # <<>>
               THEN /\ BridgeCloseBegin(closing[2])
                    /\ log' = [log EXCEPT !.bridgeCloses = Append(@, closing[2]),
                                          !.bridgeOks = Append(@, ok),
                                          !.closedWaiting = @ \cup WaitEndedByClose(closing[2])]
                    /\ UNCHANGED closePc
               ELSE /\ closePc' = "transport"
                    /\ log' = [log EXCEPT !.bridgeOks = Append(@, ok)]
                    /\ UNCHANGED <<tClosed, outboundQueue, wfr, handlers>>
    /\ UNCHANGED <<unitVars, isStreamingMode, initializationResult, inputEnded, child, queryVars,
                   callers, nHandlers, ioVars, connected, queue, onerror,
                   connectCalls, nSends>>

\* transport.close() returns or throws.  After a return close() awaits the
\* read loop, if one was started.
CloseTransportReturn(ok) ==
    /\ closePc = "transport"
    /\ ok \in TransportCloseOutcomes
    /\ child' = (child /\ ~ok)
    /\ closePc' = IF ~ok THEN "threw" ELSE IF readLoop = "none" THEN "done"
                  ELSE "readLoop"
    /\ log' = [log EXCEPT !.teardowns = IF child THEN @ + 1 ELSE @,
                          !.closeDone = IF ok /\ readLoop = "none" THEN @ + 1 ELSE @]
    /\ UNCHANGED <<unitVars, isStreamingMode, initializationResult, inputEnded, closing, queryVars,
                   callers, handlers, nHandlers, ioVars, bridgeVars>>

\* A close() that also waits for every dispatched handler to end.
ReadLoopAndHandlersSettled ==
    /\ readLoop = "done"
    /\ \A h \in Handlers : handlers[h].pc \in {"unused", "done", "crashed"}

\* What close() awaits last: readLoopPromise, settled when the loop has ended.
ReadLoopSettled == readLoop = "done"

\* The read loop has ended: close() returns.
CloseReturn ==
    /\ closePc = "readLoop"
    /\ ReadLoopSettled
    /\ closePc' = "done"
    /\ log' = [log EXCEPT !.closeDone = @ + 1]
    /\ UNCHANGED <<unitVars, extVars, queryVars, callers, handlers, nHandlers, ioVars, bridgeVars>>

(***************************************************************************)
(* An AsyncQueue taken alone                                               *)
(***************************************************************************)
\* The k-th value pushed.
PushValue(k) == <<"v1", "v2", "v3", "v4", "v5", "v6">>[k]

\* What fail is called with: Error objects, or the value undefined.
QueueErrors == {"E1", "E2", NoError}

\* The next() calls after the queue settled those of wake.
Settle(ps, wake) ==
    [k \in DOMAIN ps |->
        IF \E i \in DOMAIN wake : wake[i].w = k
        THEN wake[CHOOSE i \in DOMAIN wake : wake[i].w = k].res
        ELSE ps[k]]

\* The next() calls of wake, in the order the queue settled them.
SettledIn(wake) == [i \in DOMAIN wake |-> wake[i].w]

\* push(value) is called.
AqPush ==
    /\ qlog.pushes < MaxQPushes
    /\ LET v == PushValue(qlog.pushes + 1)
           r == QPush(aq, v) IN
       /\ aq' = r.q
       /\ pulls' = Settle(pulls, r.wake)
       /\ qlog' = [qlog EXCEPT !.pushes = @ + 1,
                               !.pushed = IF r.threw THEN @ ELSE Append(@, v),
                               !.threw = IF r.threw THEN @ + 1 ELSE @,
                               !.settled = @ \o SettledIn(r.wake)]
    /\ UNCHANGED <<hook, client, queryVars, taskVars, ioVars, bridgeVars, extVars, log>>

\* close() is called.
AqClose ==
    /\ Len(qlog.ends) < MaxQEnds
    /\ LET r == QClose(aq) IN
       /\ aq' = r.q
       /\ pulls' = Settle(pulls, r.wake)
       /\ qlog' = [qlog EXCEPT
             !.ends = Append(@, [op |-> "close", error |-> NoError, open |-> ~aq.closed]),
             !.settled = @ \o SettledIn(r.wake)]
    /\ UNCHANGED <<hook, client, queryVars, taskVars, ioVars, bridgeVars, extVars, log>>

\* fail(error) is called.
AqFail(error) ==
    /\ Len(qlog.ends) < MaxQEnds
    /\ LET r == QFail(aq, error) IN
       /\ aq' = r.q
       /\ pulls' = Settle(pulls, r.wake)
       /\ qlog' = [qlog EXCEPT
             !.ends = Append(@, [op |-> "fail", error |-> error, open |-> ~aq.closed]),
             !.settled = @ \o SettledIn(r.wake)]
    /\ UNCHANGED <<hook, client, queryVars, taskVars, ioVars, bridgeVars, extVars, log>>

\* A consumer calls next() on the queue's iterator.
AqNext ==
    /\ Len(pulls) < MaxQPulls
    /\ LET k == Len(pulls) + 1
           r == QNext(aq, k) IN
       /\ aq' = r.q
       /\ pulls' = Append(pulls, r.res)
       /\ qlog' = [qlog EXCEPT
             !.settled = IF r.res.kind = "wait" THEN @ ELSE Append(@, k)]
    /\ UNCHANGED <<hook, client, queryVars, taskVars, ioVars, bridgeVars, extVars, log>>

(***************************************************************************)
(* The hook output conversion taken alone                                  *)
(***************************************************************************)
\* The hook callback returns output to the hook_callback handler.
HookReturn(output) ==
    /\ hook.pc = "idle"
    /\ hook' = [pc |-> "returned", output |-> output, converted |-> <<>>]
    /\ UNCHANGED <<aq, pulls, qlog, client, queryVars, taskVars, ioVars, bridgeVars, extVars, log>>

\* responsePayload = convertHookOutputForCli(hookOutput)
ConvertHookOutput ==
    /\ hook.pc = "returned"
    /\ hook' = [hook EXCEPT !.pc = "converted",
                            !.converted = ConvertHookOutputForCli(hook.output)]
    /\ UNCHANGED <<aq, pulls, qlog, client, queryVars, taskVars, ioVars, bridgeVars, extVars, log>>

(***************************************************************************)
(* ClaudeAgentSDKClient (the engine and the transport behind it are taken  *)
(* as what their calls return or throw)                                    *)
(***************************************************************************)
\* new ClaudeAgentSDKClient(options, transport)
NewClient(permission, promptTool, custom) ==
    [NoClient EXCEPT !.pc = "idle", !.canUseTool = permission,
                     !.permissionPromptToolName = promptTool,
                     !.customTransport = custom]

\* What connect may be called with: nothing, a string, an async iterable, or
\* a value that is none of these.
Prompts == {"undefined", "string", "iterable", "other"}

\* The CLIConnectionError connect throws before it creates a transport.
ConnectionErrors == {"E_exclusive", "E_custom_string", "E_prompt_type",
                     "E_string_can_use_tool"}

\* The operations that throw the not-connected error without an engine.
GuardedOps == {"receiveMessages", "query", "interrupt", "setPermissionMode",
               "setModel"}

\* isStreamingMode as connect computes it.
StreamingPrompt(c, prompt) == c.customTransport \/ prompt # "string"

\* The checks of connect without the one on string prompts with canUseTool.
ConnectCheckWithoutModeCheck(c, prompt) ==
    IF c.canUseTool /\ c.permissionPromptToolName THEN "E_exclusive"
    ELSE IF c.customTransport /\ prompt = "string" THEN "E_custom_string"
    ELSE IF ~c.customTransport /\ prompt = "other" THEN "E_prompt_type"
    ELSE "ok"

\* The checks connect makes before it creates a transport, in their order:
\* the error thrown, or "ok".
ConnectCheck(c, prompt) ==
    IF c.canUseTool /\ c.permissionPromptToolName THEN "E_exclusive"
    ELSE IF c.customTransport /\ prompt = "string" THEN "E_custom_string"
    ELSE IF ~c.customTransport /\ prompt = "other" THEN "E_prompt_type"
    ELSE IF c.canUseTool /\ ~StreamingPrompt(c, prompt) THEN "E_string_can_use_tool"
    ELSE "ok"

\* connect after its first statement: a failed check ends the call, else the
\* transport is taken or created and transport.connect() called and awaited.
ConnectChecked(c) ==
    IF ConnectCheck(c, c.prompt) # "ok"
    THEN [c EXCEPT !.pc = "idle", !.result = ConnectCheck(c, c.prompt)]
    ELSE [c EXCEPT !.pc = "transport", !.transportConnects = @ + 1]

\* connect(prompt) up to its first await: a client that has an engine awaits
\* disconnect() first.
ClientConnect(prompt) ==
    /\ client.pc = "idle"
    /\ client.connectCalls < MaxConnects
    /\ LET c == [client EXCEPT !.connectCalls = @ + 1, !.prompt = prompt,
                               !.result = "pending"] IN
       client' = IF c.queryInstance # 0 THEN [c EXCEPT !.pc = "disconnect"]
                 ELSE ConnectChecked(c)
    /\ UNCHANGED <<aq, pulls, qlog, hook, queryVars, taskVars, ioVars, bridgeVars, extVars, log>>

\* disconnect() on a client with an engine, up to the await of the engine's
\* close(); without an engine it returns at once.
ClientDisconnect ==
    /\ client.pc = "idle"
    /\ client' = IF client.queryInstance = 0
                 THEN [client EXCEPT !.op = "disconnect", !.opResult = "returned"]
                 ELSE [client EXCEPT !.pc = "disconnecting", !.op = "disconnect",
                                     !.opResult = "pending"]
    /\ UNCHANGED <<aq, pulls, qlog, hook, queryVars, taskVars, ioVars, bridgeVars, extVars, log>>

\* The engine's close() returns (ok) or throws; disconnect() clears both
\* fields only after a return.  Inside connect the call then goes on with
\* its checks, or ends with the error close() threw.
ClientCloseReturn(ok) ==
    /\ client.pc \in {"disconnect", "disconnecting"}
    /\ LET c == IF ok THEN [client EXCEPT !.queryInstance = 0, !.transport = 0]
                ELSE client IN
       client' = IF client.pc = "disconnect"
                 THEN IF ok THEN ConnectChecked(c)
                      ELSE [c EXCEPT !.pc = "idle", !.result = "E_close"]
                 ELSE [c EXCEPT !.pc = "idle",
                                !.opResult = IF ok THEN "returned" ELSE "E_close"]
    /\ UNCHANGED <<aq, pulls, qlog, hook, queryVars, taskVars, ioVars, bridgeVars, extVars, log>>

\* transport.connect() returns (ok) or throws: after a return both fields
\* are set, the engine being created, and start() and initialize() awaited.
ClientTransportReturn(ok) ==
    /\ client.pc = "transport"
    /\ client' = IF ok
                 THEN [client EXCEPT !.pc = "starting", !.engines = @ + 1,
                                     !.transport = client.engines + 1,
                                     !.queryInstance = client.engines + 1]
                 ELSE [client EXCEPT !.pc = "idle", !.result = "E_connect"]
    /\ UNCHANGED <<aq, pulls, qlog, hook, queryVars, taskVars, ioVars, bridgeVars, extVars, log>>

\* start() and initialize() return (ok), or one of them throws; connect
\* ends either way, the fields staying set.
ClientStartReturn(ok) ==
    /\ client.pc = "starting"
    /\ client' = [client EXCEPT !.pc = "idle",
                                !.result = IF ok THEN "returned" ELSE "E_initialize"]
    /\ UNCHANGED <<aq, pulls, qlog, hook, queryVars, taskVars, ioVars, bridgeVars, extVars, log>>

\* receiveMessages, query, interrupt, setPermissionMode or setModel is
\* called: the not-connected error without an engine, else the call goes to
\* the engine (or, for query, to the transport).
ClientOp(op) ==
    /\ client.pc # "none"
    /\ client' = [client EXCEPT !.op = op,
                                !.opResult = IF client.queryInstance = 0
                                             THEN "E_not_connected" ELSE "forwarded"]
    /\ UNCHANGED <<aq, pulls, qlog, hook, queryVars, taskVars, ioVars, bridgeVars, extVars, log>>

(***************************************************************************)
(* Specification                                                           *)
(***************************************************************************)
Next ==
    \/ Start
    \/ Pull
    \/ \E subtype \in CallSubtypes : SendControlRequest(subtype)
    \/ \E c \in Calls, ok \in BOOLEAN : CallerWriteReturn(c, ok)
    \/ \E c \in Calls : CallerSettle(c)
    \/ \E id \in 0..MaxCalls, subtype \in {"success", "error"}, body \in {"absent", "x"} :
          ReadControlResponse(id, subtype, body)
    \/ ReadDataMessage
    \/ ReadCancelRequest
    \/ ReadWhenClosed
    \/ ReadEnd
    \/ \E error \in {"E_read", NoError} : ReadThrow(error)
    \/ \E subtype \in {"", "other"} : ReadUnsupportedRequest(subtype)
    \/ ReadCanUseTool
    \/ \E callbackId \in 0..MaxCalls : ReadHookCallback(callbackId)
    \/ \E serverName \in ServerNames, message \in RequestRpcIds \cup {"missing"} :
          ReadMcpMessage(serverName, message)
    \/ \E h \in Handlers, outcome \in {"allow", "deny", "unknown", "hook_output",
                                       "throw", "throw_nullish"} :
          CallbackReturn(h, outcome)
    \/ \E h \in Handlers, ok \in BOOLEAN : WriteReturn(h, ok)
    \/ \E h \in Handlers : HandleRequestResume(h)
    \/ \E h \in Handlers, ok \in BOOLEAN, registersOnerror \in BOOLEAN :
          ConnectReturn(h, ok, registersOnerror)
    \/ \E h \in Handlers, threw \in BOOLEAN : DeliverReturn(h, threw)
    \/ \E h \in Handlers : Timeout(h)
    \/ \E id \in ReplyRpcIds : ServiceSend(id)
    \/ ReadMcpMessageAux
    \/ \E h \in Handlers, ok \in BOOLEAN : AuxReturn(h, ok)
    \/ \E op \in NonStreamingOps : NonStreamingCall(op)
    \/ StreamInputWrite
    \/ StreamInputEnd
    \/ CloseBegin
    \/ \E ok \in BOOLEAN : CloseBridgeReturn(ok)
    \/ \E ok \in BOOLEAN : CloseTransportReturn(ok)
    \/ CloseReturn
    \/ AqPush
    \/ AqClose
    \/ \E error \in QueueErrors : AqFail(error)
    \/ AqNext
    \/ \E output \in HookOutputs : HookReturn(output)
    \/ \E h \in Handlers : DeliverOnerrorThrows(h)
    \/ ConvertHookOutput
    \/ \E prompt \in Prompts : ClientConnect(prompt)
    \/ ClientDisconnect
    \/ \E ok \in BOOLEAN : ClientCloseReturn(ok)
    \/ \E ok \in BOOLEAN : ClientTransportReturn(ok)
    \/ \E ok \in BOOLEAN : ClientStartReturn(ok)
    \/ \E op \in GuardedOps : ClientOp(op)

Spec == Init /\ [][Next]_vars

(***************************************************************************)
(* The specifications the properties are checked under.  Each is Spec with *)
(* the environment (the peer, the application, the transport, the service) *)
(* restricted to the traffic the properties are about; the engine's own    *)
(* steps are those of Spec.                                                *)
(***************************************************************************)
\* The id of the h-th mcp_message request the peer sends, when it has one.
RequestIdOf(h) == IF h % 2 = 1 THEN "n1" ELSE "n2"

\* The bridge: the peer sends only mcp_message requests for the registered
\* server, each a notification or a request with the id RequestIdOf gives;
\* the writes of the responses are not followed.
NextBridge ==
    \/ readLoop = "none" /\ Start
    \/ \E message \in {"absent", RequestIdOf(nHandlers + 1)} :
          ReadMcpMessage("demo", message)
    \/ \E h \in Handlers : HandleRequestResume(h)
    \/ \E h \in Handlers, ok \in BOOLEAN, registersOnerror \in BOOLEAN :
          ConnectReturn(h, ok, registersOnerror)
    \/ \E h \in Handlers, threw \in BOOLEAN : DeliverReturn(h, threw)
    \/ \E h \in Handlers : Timeout(h)
    \/ \E id \in ReplyRpcIds : ServiceSend(id)

InitBridge == Constructed(FALSE)

SpecBridge == InitBridge /\ [][NextBridge]_vars

\* The connection of the service: the peer sends mcp_message notifications
\* for the registered server and for an unregistered one; connect and the
\* service's handler may return or throw; writes succeed.
NextConnect ==
    \/ readLoop = "none" /\ Start
    \/ \E serverName \in {"demo", "ghost"} : ReadMcpMessage(serverName, "absent")
    \/ \E h \in Handlers : HandleRequestResume(h)
    \/ \E h \in Handlers, ok \in BOOLEAN, registersOnerror \in BOOLEAN :
          ConnectReturn(h, ok, registersOnerror)
    \/ \E h \in Handlers, threw \in BOOLEAN : DeliverReturn(h, threw)
    \/ \E h \in Handlers : WriteReturn(h, TRUE)

InitConnect == Constructed(FALSE)

SpecConnect == InitConnect /\ [][NextConnect]_vars

\* The handlers: the peer sends at most MaxRequests control requests, of every
\* subtype; initialize() registers the hook callback; callbacks, the service
\* and the transport's write may each return or throw.
NextHandlers ==
    \/ readLoop = "none" /\ Start
    \/ requestCounter = 0 /\ SendControlRequest("initialize")
    \/ /\ nHandlers < MaxRequests
       /\ \/ \E subtype \in {"", "other"} : ReadUnsupportedRequest(subtype)
          \/ ReadCanUseTool
          \/ \E callbackId \in 0..1 : ReadHookCallback(callbackId)
          \/ \E serverName \in {"demo", "ghost"}, message \in {"missing", "n1"} :
                ReadMcpMessage(serverName, message)
    \/ \E h \in Handlers, outcome \in {"allow", "deny", "unknown", "hook_output",
                                       "throw", "throw_nullish"} :
          CallbackReturn(h, outcome)
    \/ \E h \in Handlers, ok \in BOOLEAN : WriteReturn(h, ok)
    \/ \E h \in Handlers : HandleRequestResume(h)
    \/ \E h \in Handlers, ok \in BOOLEAN, registersOnerror \in BOOLEAN :
          ConnectReturn(h, ok, registersOnerror)
    \/ \E h \in Handlers, threw \in BOOLEAN : DeliverReturn(h, threw)
    \/ \E h \in Handlers : Timeout(h)
    \/ nSends = 0 /\ ServiceSend("n1")

InitHandlers == \E permission \in BOOLEAN : Constructed(permission)

SpecHandlers == InitHandlers /\ [][NextHandlers]_vars

\* The engine-initiated requests: the application issues control requests,
\* the peer sends control responses naming any id (0 is an id the engine never
\* generated); the write of a request may throw.
NextCalls ==
    \/ readLoop = "none" /\ Start
    \/ \E subtype \in {"initialize", "interrupt"} : SendControlRequest(subtype)
    \/ \E c \in Calls, ok \in BOOLEAN : CallerWriteReturn(c, ok)
    \/ \E c \in Calls : CallerSettle(c)
    \/ \E id \in 0..MaxCalls, subtype \in {"success", "error"}, body \in {"absent", "x"} :
          ReadControlResponse(id, subtype, body)
    \/ ReadEnd

InitCalls == Constructed(FALSE)

SpecCalls == InitCalls /\ [][NextCalls]_vars

\* The read loop beside a handler: the peer sends messages of every class,
\* the permission callback may stay out for ever; writes succeed.
NextLoop ==
    \/ readLoop = "none" /\ Start
    \/ SendControlRequest("interrupt")
    \/ \E c \in Calls : CallerWriteReturn(c, TRUE)
    \/ \E c \in Calls : CallerSettle(c)
    \/ \E id \in 0..MaxCalls, subtype \in {"success", "error"} :
          ReadControlResponse(id, subtype, "x")
    \/ ReadDataMessage
    \/ ReadCancelRequest
    \/ ReadCanUseTool
    \/ \E h \in Handlers, outcome \in {"allow", "throw"} : CallbackReturn(h, outcome)
    \/ \E h \in Handlers : WriteReturn(h, TRUE)
    \/ ReadEnd

InitLoop == Constructed(TRUE)

SpecLoop == InitLoop /\ [][NextLoop]_vars

\* The inbound channel: data messages, the end or the failure of the
\* transport's message sequence, a consumer pulling, and close().
NextInbound ==
    \/ readLoop = "none" /\ Start
    \/ Pull
    \/ ReadDataMessage
    \/ ReadCancelRequest
    \/ ReadWhenClosed
    \/ ReadEnd
    \/ \E error \in {"E_read", NoError} : ReadThrow(error)
    \/ closePc = "none" /\ CloseBegin
    \/ \E ok \in BOOLEAN : CloseTransportReturn(ok)
    \/ CloseReturn

InitInbound == Constructed(FALSE)

SpecInbound == InitInbound /\ [][NextInbound]_vars

\* The inbound stream with every kind of message: data messages among control
\* responses (for an id nobody waits for), control requests and
\* control_cancel_requests, a consumer pulling, the end or the failure of the
\* transport's sequence, and close().
NextStream ==
    \/ readLoop = "none" /\ Start
    \/ Pull
    \/ ReadDataMessage
    \/ ReadCancelRequest
    \/ ReadControlResponse(1, "success", "x")
    \/ nHandlers < MaxRequests /\ ReadUnsupportedRequest("other")
    \/ \E h \in Handlers : WriteReturn(h, TRUE)
    \/ ReadWhenClosed
    \/ ReadEnd
    \/ \E error \in {"E_read", NoError} : ReadThrow(error)
    \/ closePc = "none" /\ CloseBegin
    \/ CloseTransportReturn(TRUE)
    \/ CloseReturn

InitStream == Constructed(FALSE)

SpecStream == InitStream /\ [][NextStream]_vars

\* close(), called up to MaxCloses times one after the other, on an engine
\* with a call outstanding and both bridges in use, each by one request.
NextClose ==
    \/ readLoop = "none" /\ Start
    \/ requestCounter = 0 /\ SendControlRequest("interrupt")
    \/ \E c \in Calls : CallerWriteReturn(c, TRUE)
    \/ "demo" \notin sdkMcpBridges /\ ReadMcpMessage("demo", "n1")
    \/ "aux" \notin sdkMcpBridges /\ ReadMcpMessageAux
    \/ ReadWhenClosed
    \/ ReadEnd
    \/ \E h \in Handlers : ConnectReturn(h, TRUE, TRUE)
    \/ \E h \in Handlers : DeliverReturn(h, FALSE)
    \/ \E h \in Handlers, ok \in BOOLEAN : AuxReturn(h, ok)
    \/ \E h \in Handlers : WriteReturn(h, TRUE)
    \/ CloseBegin
    \/ \E ok \in BOOLEAN : CloseBridgeReturn(ok)
    \/ \E ok \in BOOLEAN : CloseTransportReturn(ok)
    \/ CloseReturn

InitClose == Constructed(FALSE)

SpecClose == InitClose /\ [][NextClose]_vars

\* close() while requests to the server bridge are in progress: connecting
\* (the connect may throw), queued behind one another, with the service, or
\* waiting for its reply; the writes of the responses return or throw.
NextShutdown ==
    \/ readLoop = "none" /\ Start
    \/ /\ nHandlers < MaxRequests
       /\ ReadMcpMessage("demo", RequestIdOf(nHandlers + 1))
    \/ \E h \in Handlers : HandleRequestResume(h)
    \/ \E h \in Handlers, ok \in BOOLEAN : ConnectReturn(h, ok, FALSE)
    \/ \E h \in Handlers : DeliverReturn(h, FALSE)
    \/ \E h \in Handlers : Timeout(h)
    \/ ServiceSend("n1")
    \/ \E h \in Handlers, ok \in BOOLEAN : WriteReturn(h, ok)
    \/ closePc = "none" /\ CloseBegin
    \/ CloseBridgeReturn(TRUE)
    \/ CloseTransportReturn(TRUE)

InitShutdown == Constructed(FALSE)

SpecShutdown == InitShutdown /\ [][NextShutdown]_vars

\* close() beside handlers that may never end: permission requests whose
\* callback may stay out for ever and a request to the server bridge that may
\* never be answered, with the loop reading, ending or failing.
NextClosing ==
    \/ readLoop = "none" /\ Start
    \/ nHandlers < MaxRequests /\ ReadCanUseTool
    \/ "demo" \notin sdkMcpBridges /\ nHandlers < MaxRequests /\ ReadMcpMessage("demo", "n1")
    \/ \E h \in Handlers : CallbackReturn(h, "allow")
    \/ \E h \in Handlers : ConnectReturn(h, TRUE, FALSE)
    \/ \E h \in Handlers : DeliverReturn(h, FALSE)
    \/ \E h \in Handlers : WriteReturn(h, TRUE)
    \/ ReadWhenClosed
    \/ ReadEnd
    \/ ReadThrow("E_read")
    \/ closePc = "none" /\ CloseBegin
    \/ \E ok \in BOOLEAN : CloseBridgeReturn(ok)
    \/ CloseTransportReturn(TRUE)
    \/ CloseReturn

InitClosing == Constructed(TRUE)

\* The read of the loop that is pending once transport.close() has returned
\* completes: with the end of the sequence, a last message or an error.
LoopReadCompletes ==
    closePc = "readLoop" /\ (ReadEnd \/ ReadWhenClosed \/ ReadThrow("E_read"))

\* Every bridge close terminates, transport.close() returns and ends the
\* message sequence, and close() resumes when what it awaits has settled;
\* nothing is assumed of the handlers and their callbacks.
SpecClosing ==
    /\ InitClosing /\ [][NextClosing]_vars
    /\ WF_vars(\E ok \in BOOLEAN : CloseBridgeReturn(ok))
    /\ WF_vars(CloseTransportReturn(TRUE))
    /\ WF_vars(LoopReadCompletes)
    /\ WF_vars(CloseReturn)

\* Messages of every class arriving before and after close() marks the
\* engine closed.
NextForward ==
    \/ readLoop = "none" /\ Start
    \/ Pull
    \/ requestCounter = 0 /\ SendControlRequest("interrupt")
    \/ \E c \in Calls : CallerWriteReturn(c, TRUE)
    \/ \E c \in Calls : CallerSettle(c)
    \/ \E id \in 0..1 : ReadControlResponse(id, "success", "x")
    \/ ReadDataMessage
    \/ ReadUnsupportedRequest("other")
    \/ ReadMcpMessageAux
    \/ ReadWhenClosed
    \/ ReadEnd
    \/ \E h \in Handlers, ok \in BOOLEAN : AuxReturn(h, ok)
    \/ \E h \in Handlers : WriteReturn(h, TRUE)
    \/ closePc = "none" /\ CloseBegin
    \/ \E ok \in BOOLEAN : CloseBridgeReturn(ok)
    \/ CloseTransportReturn(TRUE)
    \/ CloseReturn

InitForward == Constructed(FALSE)

SpecForward == InitForward /\ [][NextForward]_vars

\* The mode-dependent operations on an engine constructed in either mode.
NextModes ==
    \/ readLoop = "none" /\ Start
    \/ \E op \in NonStreamingOps : NonStreamingCall(op)
    \/ \E subtype \in CallSubtypes : requestCounter = 0 /\ SendControlRequest(subtype)
    \/ \E c \in Calls : CallerWriteReturn(c, TRUE)
    \/ \E c \in Calls : CallerSettle(c)
    \/ ReadControlResponse(1, "success", "x")
    \/ ReadDataMessage
    \/ StreamInputWrite
    \/ StreamInputEnd

InitModes == \E streaming \in BOOLEAN : ConstructedIn(FALSE, streaming)

SpecModes == InitModes /\ [][NextModes]_vars

\* initialize(), interrupt(), setPermissionMode() and setModel() in streaming
\* mode: writes that return or throw, and responses of either subtype for
\* every id, generated or not, in every order.
NextRequests ==
    \/ readLoop = "none" /\ Start
    \/ \E subtype \in CallSubtypes : SendControlRequest(subtype)
    \/ \E c \in Calls, ok \in BOOLEAN : CallerWriteReturn(c, ok)
    \/ \E c \in Calls : CallerSettle(c)
    \/ \E id \in 0..MaxCalls, subtype \in {"success", "error"} :
          ReadControlResponse(id, subtype, "x")
    \/ ReadEnd

InitRequests == Constructed(FALSE)

SpecRequests == InitRequests /\ [][NextRequests]_vars

\* start() called up to MaxStarts times, before, while and after the loop
\* reads data messages, with a consumer pulling.
NextStart ==
    \/ Start
    \/ Pull
    \/ ReadDataMessage
    \/ ReadEnd
    \/ ReadThrow("E_read")

InitStart == Constructed(FALSE)

SpecStart == InitStart /\ [][NextStart]_vars

\* An AsyncQueue taken alone: pushes, pulls, close() and fail() in every
\* order.
NextQueue ==
    \/ AqPush
    \/ AqClose
    \/ \E error \in QueueErrors : AqFail(error)
    \/ AqNext

InitQueue == Constructed(FALSE)

\* The hook registry: initialize() called up to MaxCalls times, the peer
\* sending hook_callback requests that name registered and unregistered ids
\* (0 is an id that is never registered), before and after close().
NextHooks ==
    \/ readLoop = "none" /\ Start
    \/ SendControlRequest("initialize")
    \/ \E c \in Calls, ok \in BOOLEAN : CallerWriteReturn(c, ok)
    \/ /\ nHandlers < MaxRequests
       /\ \E callbackId \in 0..MaxCalls : ReadHookCallback(callbackId)
    \/ \E h \in Handlers : CallbackReturn(h, "hook_output")
    \/ \E h \in Handlers : WriteReturn(h, TRUE)
    \/ closePc = "none" /\ CloseBegin
    \/ CloseTransportReturn(TRUE)

InitHooks == Constructed(FALSE)

SpecHooks == InitHooks /\ [][NextHooks]_vars

\* A client with every combination of the three options: connect called up
\* to MaxConnects times with every kind of prompt, disconnect, and the other
\* operations, at any moment.
NextClient ==
    \/ \E prompt \in Prompts : ClientConnect(prompt)
    \/ ClientDisconnect
    \/ \E ok \in BOOLEAN : ClientCloseReturn(ok)
    \/ \E ok \in BOOLEAN : ClientTransportReturn(ok)
    \/ \E ok \in BOOLEAN : ClientStartReturn(ok)
    \/ \E op \in GuardedOps : ClientOp(op)

InitClient ==
    /\ QueryConstructed(FALSE, TRUE)
    /\ QueueFresh
    /\ HookFresh
    /\ \E permission, promptTool, custom \in BOOLEAN :
          client = NewClient(permission, promptTool, custom)

SpecClient == InitClient /\ [][NextClient]_vars

SpecQueue == InitQueue /\ [][NextQueue]_vars

\* Protocol errors among valid requests: the peer sends control requests of
\* every subtype, with and without what each needs, to an engine with or
\* without a permission callback, before and after initialize() has
\* registered the hook callback.
NextProtocol ==
    \/ readLoop = "none" /\ Start
    \/ requestCounter = 0 /\ SendControlRequest("initialize")
    \/ /\ nHandlers < MaxRequests
       /\ \/ \E subtype \in {"", "other"} : ReadUnsupportedRequest(subtype)
          \/ ReadCanUseTool
          \/ \E callbackId \in 0..1 : ReadHookCallback(callbackId)
          \/ \E serverName \in ServerNames, message \in {"missing", "n1"} :
                ReadMcpMessage(serverName, message)
    \/ \E h \in Handlers, outcome \in {"allow", "hook_output"} : CallbackReturn(h, outcome)
    \/ \E h \in Handlers, ok \in BOOLEAN : WriteReturn(h, ok)
    \/ \E h \in Handlers : HandleRequestResume(h)
    \/ \E h \in Handlers : ConnectReturn(h, TRUE, FALSE)
    \/ \E h \in Handlers : DeliverReturn(h, FALSE)
    \/ \E h \in Handlers : Timeout(h)

SpecProtocol == InitHandlers /\ [][NextProtocol]_vars

\* deliver: requests and notifications for one bridge whose service may or
\* may not register an onerror handler; the onmessage handler returns or
\* throws, and so does the onerror handler.
NextDeliver ==
    \/ readLoop = "none" /\ Start
    \/ /\ nHandlers < MaxRequests
       /\ \E message \in {"absent", RequestIdOf(nHandlers + 1)} :
             ReadMcpMessage("demo", message)
    \/ \E h \in Handlers : HandleRequestResume(h)
    \/ \E h \in Handlers, registersOnerror \in BOOLEAN :
          ConnectReturn(h, TRUE, registersOnerror)
    \/ \E h \in Handlers, threw \in BOOLEAN : DeliverReturn(h, threw)
    \/ \E h \in Handlers : DeliverOnerrorThrows(h)
    \/ \E h \in Handlers : Timeout(h)
    \/ ServiceSend("n1")

InitDeliver == Constructed(FALSE)

SpecDeliver == InitDeliver /\ [][NextDeliver]_vars

\* The replies of one bridge: the peer sends requests with an id and
\* notifications (id absent or null); the service sends messages with every
\* kind of id, matching or not, before and after the request is delivered;
\* the timer may fire and close() may close the bridge.
NextReplies ==
    \/ readLoop = "none" /\ Start
    \/ /\ nHandlers < MaxRequests
       /\ \E message \in {"absent", "null", RequestIdOf(nHandlers + 1)} :
             ReadMcpMessage("demo", message)
    \/ \E h \in Handlers : HandleRequestResume(h)
    \/ \E h \in Handlers : ConnectReturn(h, TRUE, FALSE)
    \/ \E h \in Handlers, threw \in BOOLEAN : DeliverReturn(h, threw)
    \/ \E h \in Handlers : Timeout(h)
    \/ \E id \in {"absent", "s1", "n2"} : ServiceSend(id)
    \/ closePc = "none" /\ CloseBegin
    \/ CloseBridgeReturn(TRUE)

InitReplies == Constructed(FALSE)

SpecReplies == InitReplies /\ [][NextReplies]_vars

\* convertHookOutputForCli applied to every output record of at most
\* MaxFields fields.
NextHook == ConvertHookOutput

InitHook ==
    /\ QueryConstructed(FALSE, TRUE)
    /\ QueueFresh
    /\ ClientFresh
    /\ \E output \in HookOutputs :
          hook = [pc |-> "returned", output |-> output, converted |-> <<>>]

SpecHook == InitHook /\ [][NextHook]_vars

(***************************************************************************)
(* Properties                                                              *)
(***************************************************************************)
\* The control_response lines written so far that carry request_id h.
ResponsesWritten(h) ==
    BagCardinality([l \in {x \in BagToSet(written) :
                             x.type = "control_response" /\ x.request_id = h}
                    |-> written[l]])

\* The handlers whose message is with the service: deliver() in progress.
Delivering == {h \in Handlers : handlers[h].pc = "delivering"}

\* C1: on one bridge the service never has two deliver() calls in progress at
\* the same time, however many handleRequest calls are issued and however
\* they interleave.
C1_OneDeliverAtATime == Cardinality(Delivering) <= 1

\* C2: a request that begins on a bridge after an earlier request timed out,
\* and whose reply the service does send with the request's own id, does not
\* fail by timeout.
C2_UsableAfterTimeout ==
    \A h \in log.afterTimeout \cap log.repliedTo : handlers[h].raised # "timeout"

C4_ExactlyOneResponse ==
    \A h \in Handlers :
        handlers[h].pc \in {"done", "crashed"} => ResponsesWritten(h) = 1

\* C5: once a sendControlRequest call has terminated, by returning or by
\* throwing, the registry holds no entry for its request id.
C5_RegistryCleared ==
    \A c \in Calls :
        callers[c].pc \in {"returned", "failed", "writeFailed"}
            => c \notin pendingControlRequests

\* C6: no request id has its pending correlation settled more than once, and
\* a control response that settles nothing (a duplicate, or one naming an id
\* that was never registered) changes neither the registry nor any caller nor
\* the inbound channel, and leaves the read loop running.
C6_AtMostOneSettlement ==
    /\ [](\A c \in Calls : log.settles[c] <= 1)
    /\ [][(nRead' = nRead + 1 /\ log'.settles = log.settles)
            => /\ pendingControlRequests' = pendingControlRequests
               /\ callers' = callers
               /\ messageQueue' = messageQueue
               /\ received' = received
               /\ readLoop' = readLoop]_vars

\* C6, reached: one request was issued and three responses read, so two of
\* them were duplicates or named an unknown id; the loop is still running.
C6_Witness ==
    /\ requestCounter = 1
    /\ log.settles[1] = 1
    /\ nRead = MaxMsgs
    /\ readLoop = "running"

\* The payload a caller gets from a success response with this body, and the
\* message of the error it gets from an error response.
BodyOf(settledBy) ==
    IF settledBy[2] # "absent" THEN settledBy[2]
    ELSE IF settledBy[1] = "success" THEN "{}" ELSE "unknown"

\* C7: a response settles exactly the caller whose request_id it carries: a
\* success response resolves that caller with its payload, an error response
\* rejects it with an error wrapped as a control-request failure, and a step
\* that settles one caller leaves every other caller as it was.
C7_SettlesItsCaller ==
    /\ [](\A c \in Calls :
            /\ callers[c].promise = "pending" <=> log.settledBy[c] = <<>>
            /\ callers[c].promise = "resolved"
                 => /\ log.settledBy[c][1] = "success"
                    /\ callers[c].value = BodyOf(log.settledBy[c])
            /\ callers[c].promise = "rejected"
                 => /\ log.settledBy[c][1] = "error"
                    /\ callers[c].value = BodyOf(log.settledBy[c])
            /\ callers[c].pc = "returned"
                 => /\ callers[c].promise = "resolved"
                    /\ callers[c].result = callers[c].value
                    /\ ~callers[c].wrapped
            /\ callers[c].pc = "failed"
                 => /\ callers[c].promise = "rejected"
                    /\ callers[c].result = callers[c].value
                    /\ callers[c].wrapped)
    /\ [][\A c \in Calls :
            callers'[c].promise # callers[c].promise
              => /\ log'.settles[c] = log.settles[c] + 1
                 /\ \A d \in Calls \ {c} : callers'[d] = callers[d]]_vars

\* C7, reached: two requests were outstanding; the response of the second came
\* first and rejected its caller, which failed with the wrapped error, while
\* the first caller is still waiting for its own response.
C7_Witness ==
    /\ callers[2].pc = "failed"
    /\ callers[2].wrapped
    /\ callers[1].pc = "awaiting"
    /\ callers[1].promise = "pending"

\* C8: while a handler waits on a callback that has not returned, and may
\* never return, the read loop takes the next message whatever its class: a
\* data message, a control response, a control request, a cancel request.
C8_LoopNotBlocked ==
    (/\ readLoop = "running" /\ ~closed /\ nRead < MaxMsgs
     /\ \E h \in Handlers : handlers[h].pc = "callback")
        => /\ ENABLED ReadDataMessage
           /\ ENABLED ReadControlResponse(1, "success", "x")
           /\ ENABLED ReadCanUseTool
           /\ ENABLED ReadCancelRequest

\* C8, reached: the first handler is still waiting on its callback, and after
\* it was dispatched a data message was pushed to the inbound channel and a
\* control response settled a pending correlation.
C8_Witness ==
    /\ handlers[1].pc = "callback"
    /\ nRead = MaxMsgs
    /\ messageQueue.values # <<>>
    /\ \E c \in Calls : log.settles[c] = 1 /\ callers[c].promise = "resolved"

\* The errors a handler catches at its boundary: protocol errors, callback
\* errors, bridge timeouts, bridge and service-handler errors.
HandlerErrors == {"protocol", "callback", "timeout", "bridge", "service"}

NextPull == QNext(messageQueue, 1).res

\* C10 (as stated): once iterating the transport's messages has thrown, the
\* consumer's next pull re-throws the error.
C10_NextPullRethrows == log.loopError # "none" => NextPull = Rejected(log.loopError)

\* C10: when iterating the transport's messages throws while the inbound
\* channel is open, a consumer waiting at that moment is rejected with the
\* thrown value, and every later pull re-throws it, buffered messages or not,
\* if it is an Error object; the value undefined is not kept, and if close()
\* had closed the channel the thrown value is dropped: the next pull then
\* yields a buffered message or the end of the sequence.
C10_FailureReachesConsumer ==
    /\ [](log.loopError # "none"
            => IF log.closedFirst \/ log.loopError = NoError
               THEN NextPull.kind \in {"value", "done"}
               ELSE NextPull = Rejected(log.loopError))
    /\ [][(log.loopError = "none" /\ log'.loopError # "none" /\ consumer = "waiting")
            => /\ ~log'.closedFirst
               /\ received' = Append(received, Rejected(log'.loopError))]_vars
    /\ [][(log.loopError \notin {"none", NoError} /\ ~log.closedFirst
            /\ Len(received') > Len(received))
            => received'[Len(received')] = Rejected(log.loopError)]_vars

\* C10, reached: a data message was buffered, iterating then threw an Error
\* with the channel open, and the consumer's next pull was rejected with it.
C10_Witness ==
    /\ log.loopError = "E_read"
    /\ ~log.closedFirst
    /\ messageQueue.values # <<>>
    /\ received # <<>>
    /\ received[Len(received)] = Rejected(log.loopError)


\* C11: once the read loop has exited (end of the transport's sequence, a
\* thrown error, or the engine closed) the inbound channel is closed and holds
\* no waiter, the consumer is not waiting, and every pull issued from then on
\* completes at once with a buffered message, the end of the sequence or the
\* captured error.
C11_NoConsumerHangs ==
    /\ [](readLoop = "done"
            => /\ messageQueue.closed
               /\ messageQueue.waiters = <<>>
               /\ consumer = "idle"
               /\ NextPull.kind \in {"value", "done", "error"})
    /\ [][(readLoop = "done" /\ received' # received)
            => /\ consumer' = "idle"
               /\ received' = Append(received, NextPull)]_vars

\* C11, reached: the consumer took a data message and pulled again; the
\* transport's sequence ended, the engine not closed, and the consumer got
\* the end of the sequence.
C11_Witness ==
    /\ readLoop = "done"
    /\ ~closed
    /\ Len(received) = 2
    /\ received[1].kind = "value"
    /\ received[2] = Done
    /\ log.loopError = "none"


\* What of the engine, its transport and its bridges can be observed.
EngineState ==
    <<closed, messageQueue, pendingControlRequests, hookCallbacks, requestCounter,
      readLoop, sdkMcpBridges, initializationResult, callers, handlers, written,
      consumer, received, child, inputEnded, tClosed, outboundQueue, connected>>

\* A step of close().
CloseStep == <<closePc, closing>>' # <<closePc, closing>>

\* C12: once a close() call has completed, a later close() call never ends
\* with an error, tears down neither the transport nor a bridge again, and
\* none of its steps changes the observable state of the engine.
C12_CloseIsIdempotent ==
    /\ [](log.closeDone >= 1
            => /\ closePc # "threw"
               /\ closed /\ messageQueue.closed
               /\ sdkMcpBridges = {} /\ closing = <<>>
               /\ ~child)
    /\ [][(log.closeDone >= 1 /\ CloseStep)
            => /\ EngineState' = EngineState
               /\ log'.teardowns = log.teardowns
               /\ log'.bridgeCloses = log.bridgeCloses]_vars

\* C12, reached: two close() calls have completed; the first closed both
\* bridges and tore the transport down, with a call outstanding and the read
\* loop ended.
C12_Witness ==
    /\ log.closeCalls = 2
    /\ log.closeDone = 2
    /\ closePc = "done"
    /\ log.teardowns = 1
    /\ Len(log.bridgeCloses) = 2
    /\ readLoop = "done"
    /\ pendingControlRequests # {}


\* C13: once close() has marked the engine closed the inbound channel is
\* closed, and a message the read loop takes from the transport is not
\* forwarded: nothing is pushed to the channel or handed to the consumer, no
\* handler is dispatched, and no pending correlation is settled or removed.
C13_NothingForwardedOnceClosed ==
    /\ [](closed => messageQueue.closed)
    /\ [][(closed /\ nRead' # nRead)
            => /\ messageQueue' = messageQueue
               /\ received' = received
               /\ nHandlers' = nHandlers
               /\ handlers' = handlers
               /\ sdkMcpBridges' = sdkMcpBridges
               /\ pendingControlRequests' = pendingControlRequests
               /\ callers' = callers
               /\ log'.settles = log.settles
               /\ readLoop' = "done"]_vars

\* C13, reached: with a call outstanding, a data message buffered and a
\* handler dispatched, close() marked the engine closed and the read loop
\* then took the third message.
C13_Witness ==
    /\ closed
    /\ log.readWhenClosed = 1
    /\ nRead = 3
    /\ nHandlers = 1
    /\ Len(messageQueue.values) + Len(received) = 1
    /\ pendingControlRequests = {1}


\* The elements of the sequence s.
Range(s) == {s[i] : i \in DOMAIN s}

\* C14: close() takes every entry of the bridge map, and whatever the close of
\* a bridge does, return or throw, close() goes on to the next entry and after
\* the last one calls transport.close(); it ends with an error only when
\* transport.close() throws, never because of a bridge.
C14_BridgeErrorsSwallowed ==
    /\ [](closePc \in {"transport", "readLoop", "done", "threw"} => closing = <<>>)
    /\ [](Len(log.bridgeOks) <= Len(log.bridgeCloses))
    /\ [][(closePc \in {"none", "done", "threw"} /\ CloseStep)
            => /\ Range(closing') = sdkMcpBridges
               /\ Len(closing') = Cardinality(sdkMcpBridges)
               /\ closePc' = IF sdkMcpBridges = {} THEN "transport" ELSE "bridges"]_vars
    /\ [][(closePc = "bridges" /\ CloseStep)
            => /\ closing' = Tail(closing)
               /\ closePc' = IF Tail(closing) = <<>> THEN "transport" ELSE "bridges"
               /\ Len(log'.bridgeCloses) =
                     Len(log.bridgeCloses) + (IF Tail(closing) = <<>> THEN 0 ELSE 1)]_vars
    /\ [][closePc' = "threw" => closePc \in {"transport", "threw"}]_vars

\* C14, reached: the close of the first of two bridges threw; the second
\* bridge was closed, the transport torn down and close() returned.
C14_Witness ==
    /\ Len(log.bridgeOks) = 2
    /\ ~log.bridgeOks[1]
    /\ Len(log.bridgeCloses) = 2
    /\ log.bridgeCloses[1] # log.bridgeCloses[2]
    /\ log.teardowns = 1
    /\ log.closeDone = 1
    /\ closePc = "done"


\* C15 (as stated): after close() has completed no pending-correlation entry
\* and no bridge entry remains registered.
C15_RegistriesTornDown ==
    closePc = "done" => pendingControlRequests = {} /\ sdkMcpBridges = {}


\* The lines of type t written to the transport.
LinesOfType(t) == {l \in BagToSet(written) : l.type = t}

\* C16: in non-streaming mode initialize() returns the empty result (null)
\* and caches it, writes nothing, registers no pending correlation and no hook
\* callback and generates no request id; getInitializationResult() returns
\* null before and after, reading the cached field only.
C16_InitializeSkipped ==
    /\ [](~isStreamingMode
            => /\ GetInitializationResult = "null"
               /\ hookCallbacks = {}
               /\ pendingControlRequests = {}
               /\ LinesOfType("control_request") = {})
    /\ [][(~isStreamingMode /\ log'.returned # log.returned)
            => /\ log'.returned = Append(log.returned, "null")
               /\ log'.thrown = log.thrown
               /\ written' = written
               /\ <<pendingControlRequests, hookCallbacks, requestCounter, callers>>'
                     = <<pendingControlRequests, hookCallbacks, requestCounter, callers>>
               /\ GetInitializationResult' = "null"]_vars


\* C16, reached: in non-streaming mode, with the read loop running and a data
\* message read, initialize() was called twice and returned null each time.
C16_Witness ==
    /\ ~isStreamingMode
    /\ log.returned = <<"null", "null">>
    /\ readLoop = "running"
    /\ nRead = 1
    /\ written = EmptyBag

\* C17: in non-streaming mode interrupt(), setPermissionMode(), setModel() and
\* streamInput() throw the mode-mismatch error and change nothing: no line is
\* written, no pending correlation registered, the request counter stays
\* where it was and end-of-input is not signalled.
C17_ModeMismatchLeavesEngineUnchanged ==
    /\ [](~isStreamingMode
            => /\ LinesOfType("control_request") = {}
               /\ LinesOfType("user") = {}
               /\ pendingControlRequests = {}
               /\ requestCounter = 0
               /\ ~inputEnded)
    /\ [][(~isStreamingMode /\ log'.thrown # log.thrown)
            => /\ \E op \in NonStreamingOps \ {"initialize"} :
                     log'.thrown = Append(log.thrown, <<op, "mode_mismatch">>)
               /\ log'.returned = log.returned
               /\ EngineState' = EngineState]_vars
    /\ [][(~isStreamingMode /\ EngineState' # EngineState)
            => \/ <<readLoop, nRead>>' # <<readLoop, nRead>>
               \/ log'.returned # log.returned]_vars

\* C17, reached: in non-streaming mode streamInput() and then setModel() were
\* called and each threw the mode-mismatch error.
C17_Witness ==
    /\ ~isStreamingMode
    /\ log.thrown = <<<<"stream_input", "mode_mismatch">>, <<"set_model", "mode_mismatch">>>>
    /\ requestCounter = 0
    /\ written = EmptyBag


\* The control_request lines written so far that carry request id c.
RequestLines(c) ==
    {l \in BagToSet(written) : l.type = "control_request" /\ l.request_id = c}

\* How many of them there are, copies counted.
RequestsWritten(c) == BagCardinality([l \in RequestLines(c) |-> written[l]])

\* C18: in streaming mode each call of initialize(), interrupt(),
\* setPermissionMode() or setModel() issues one write, of a control_request
\* line carrying the call's subtype and its own request id: no line while the
\* write is in progress or after it threw, exactly one from the write's return
\* on.  The call returns only after the read loop processed a success
\* response carrying that id, and throws the wrapped failure only after an
\* error response carrying it.
C18_OneRequestPerCall ==
    /\ [](\A c \in Calls :
            /\ callers[c].pc = "unused" => RequestLines(c) = {}
            /\ callers[c].pc # "unused"
                 => /\ callers[c].subtype \in CallSubtypes
                    /\ \A l \in RequestLines(c) : l.subtype = callers[c].subtype
                    /\ RequestsWritten(c) =
                          IF callers[c].pc \in {"writing", "writeFailed"} THEN 0 ELSE 1
            /\ callers[c].pc = "returned"
                 => log.settles[c] = 1 /\ log.settledBy[c][1] = "success"
            /\ callers[c].pc = "failed"
                 => log.settles[c] = 1 /\ log.settledBy[c][1] = "error")
    /\ [][\A c \in Calls :
            (callers[c].pc = "awaiting" /\ callers'[c].pc # "awaiting")
               => /\ callers[c].promise # "pending"
                  /\ c \notin pendingControlRequests']_vars

\* C18, reached: setPermissionMode() and setModel() were called, each wrote
\* its line, and each returned after its response.
C18_Witness ==
    /\ callers[1].pc = "returned" /\ callers[1].subtype = "set_permission_mode"
    /\ callers[2].pc = "returned" /\ callers[2].subtype = "set_model"
    /\ RequestsWritten(1) = 1 /\ RequestsWritten(2) = 1
    /\ nRead = 2


\* C19: the request counter only grows, a generated id is one never generated
\* before, and the call it is generated for gets a registry entry of its own:
\* no call in progress is replaced, and as long as a call has not been
\* answered and its wait has not ended its id is registered.
C19_RequestIdsDistinct ==
    /\ [](pendingControlRequests \subseteq 1..requestCounter)
    /\ [](\A c \in Calls : callers[c].pc # "unused" => c <= requestCounter)
    /\ [](\A c \in Calls :
            c \in pendingControlRequests
               <=> /\ callers[c].pc \in {"writing", "awaiting", "writeFailed"}
                   /\ log.settles[c] = 0)
    /\ [][requestCounter' >= requestCounter]_vars
    /\ [][\A c \in Calls :
            (/\ callers'[c].pc = "writing"
             /\ callers[c].pc # "writing" \/ callers'[c].subtype # callers[c].subtype)
               => /\ callers[c].pc = "unused"
                  /\ c \notin pendingControlRequests
                  /\ c = requestCounter'
                  /\ requestCounter' = requestCounter + 1
                  /\ pendingControlRequests' = pendingControlRequests \cup {c}
                  /\ \A d \in Calls \ {c} : callers'[d] = callers[d]]_vars

\* C19, reached: two requests are outstanding at the same time, each under
\* its own id.
C19_Witness ==
    /\ requestCounter = 2
    /\ pendingControlRequests = {1, 2}
    /\ callers[1].pc = "awaiting"
    /\ callers[2].pc = "awaiting"
    /\ log.settles = [c \in Calls |-> 0]


\* The data messages handed to the consumer, in order.
RECURSIVE Taken(_)
Taken(rs) ==
    IF rs = <<>> THEN <<>>
    ELSE IF Head(rs).kind = "value" THEN <<Head(rs).v>> \o Taken(Tail(rs))
    ELSE Taken(Tail(rs))

\* C20: however often start() is called, one read loop is launched, by the
\* first call, and no later call launches another or restarts one that has
\* ended; the messages of the transport reach the inbound channel once each
\* and in the transport's order.
C20_OneReadLoop ==
    /\ [](log.loopsLaunched = IF log.startCalls = 0 THEN 0 ELSE 1)
    /\ [](readLoop = "none" <=> log.startCalls = 0)
    /\ [](Taken(received) \o messageQueue.values = [k \in 1..nRead |-> DataValue(k)])
    /\ [][(log'.startCalls # log.startCalls /\ log.startCalls >= 1)
            => /\ readLoop' = readLoop
               /\ <<nRead, messageQueue, received, consumer>>'
                     = <<nRead, messageQueue, received, consumer>>]_vars
    /\ [][readLoop = "done" => readLoop' = "done"]_vars

\* C20, reached: start() was called twice; the loop has read two messages and
\* is running, and the consumer took the first.
C20_Witness ==
    /\ log.startCalls = 2
    /\ log.loopsLaunched = 1
    /\ readLoop = "running"
    /\ nRead = 2
    /\ Taken(received) = <<DataValue(1)>>
    /\ messageQueue.values = <<DataValue(2)>>


\* C21: push on a closed queue throws and changes neither the queue nor any
\* consumer's pull; push on an open queue hands the value to the consumer
\* waiting longest or, when none waits, appends it to the buffer; the values
\* the pulls take, in pull order, followed by the buffer, are the accepted
\* values in push order, each once.
C21_PushFailsLoudlyWhenClosed ==
    /\ [](Taken(pulls) \o aq.values = qlog.pushed)
    /\ [][qlog'.pushes # qlog.pushes
            => LET v == PushValue(qlog'.pushes) IN
               IF aq.closed
               THEN /\ qlog'.threw = qlog.threw + 1
                    /\ qlog'.pushed = qlog.pushed
                    /\ aq' = aq
                    /\ pulls' = pulls
               ELSE /\ qlog'.threw = qlog.threw
                    /\ qlog'.pushed = Append(qlog.pushed, v)
                    /\ IF aq.waiters # <<>>
                       THEN /\ aq' = [aq EXCEPT !.waiters = Tail(@)]
                            /\ pulls' = [pulls EXCEPT ![Head(aq.waiters)] = Value(v)]
                       ELSE /\ aq' = [aq EXCEPT !.values = Append(@, v)]
                            /\ pulls' = pulls]_vars

\* C21, reached: two values were pushed and taken in order, the queue was
\* closed, and a third push threw.
C21_Witness ==
    /\ qlog.pushes = 3
    /\ qlog.threw = 1
    /\ qlog.pushed = <<PushValue(1), PushValue(2)>>
    /\ Taken(pulls) = qlog.pushed
    /\ aq.closed
    /\ aq.error = NoError


\* The close() and fail() calls that found the queue open: at most the first.
EndedBy(op) == qlog.ends # <<>> /\ qlog.ends[1].op = op

\* Is the step a close() or fail() call.
EndStep == qlog'.ends # qlog.ends

\* The call of an EndStep.
EndCall == qlog'.ends[Len(qlog'.ends)]

\* C22: close() on an open queue keeps the buffer as it is and ends every
\* waiting pull with end-of-sequence; from then on a pull takes the front of
\* the buffer while there is one and gets end-of-sequence only when the buffer
\* is empty, whatever is called on the queue in between; close() on a queue
\* that is closed already changes nothing.
C22_CloseDrainsAndIsIdempotent ==
    /\ [](EndedBy("close") => aq.closed /\ aq.error = NoError /\ aq.waiters = <<>>)
    /\ [][(EndStep /\ EndCall.op = "close")
            => IF aq.closed
               THEN aq' = aq /\ pulls' = pulls
               ELSE /\ aq' = [aq EXCEPT !.closed = TRUE, !.waiters = <<>>]
                    /\ \A k \in DOMAIN pulls :
                          pulls'[k] = IF pulls[k].kind = "wait" THEN Done ELSE pulls[k]]_vars
    /\ [][(EndedBy("close") /\ Len(pulls') > Len(pulls))
            => IF aq.values # <<>>
               THEN /\ pulls' = Append(pulls, Value(Head(aq.values)))
                    /\ aq'.values = Tail(aq.values)
               ELSE pulls' = Append(pulls, Done) /\ aq' = aq]_vars
    /\ [][(EndedBy("close") /\ Len(pulls') = Len(pulls)) => aq' = aq /\ pulls' = pulls]_vars

\* C22, reached: two values were buffered, the queue closed twice, and three
\* pulls made afterwards got the two values in order and then the end.
C22_Witness ==
    /\ Len(qlog.ends) = 2
    /\ qlog.ends[1].op = "close" /\ qlog.ends[2].op = "close"
    /\ pulls = <<Value(PushValue(1)), Value(PushValue(2)), Done>>
    /\ qlog.settled = <<1, 2, 3>>
    /\ qlog.threw = 0


\* Is the step a pull (a next() call).
PullStep == Len(pulls') > Len(pulls)

\* What the pull of a PullStep has got so far.
Pulled == pulls'[Len(pulls')]

\* Has fail() been called, on an open queue or not.
FailCalled == \E i \in DOMAIN qlog.ends : qlog.ends[i].op = "fail"

\* The error of the first fail() call.
FirstFailError ==
    qlog.ends[CHOOSE i \in DOMAIN qlog.ends :
                 /\ qlog.ends[i].op = "fail"
                 /\ \A j \in 1..(i - 1) : qlog.ends[j].op # "fail"].error

\* C23 as stated: whatever state fail(error) is called in, the pulls waiting
\* at that moment are rejected with the error, and every pull made after a
\* fail() call is rejected with the error of the first one.
C23_AnyFailRejectsForGood ==
    /\ [][(EndStep /\ EndCall.op = "fail" /\ ~FailCalled)
            => /\ aq'.error = EndCall.error
               /\ \A k \in DOMAIN pulls :
                     pulls[k].kind = "wait" => pulls'[k] = Rejected(EndCall.error)]_vars
    /\ [][(PullStep /\ FailCalled) => Pulled = Rejected(FirstFailError)]_vars

\* C23: fail(error) on an open queue closes it, keeps the error and rejects
\* every waiting pull with it; when the error is an Error object (truthy),
\* every later pull is rejected with it, the buffer being skipped, and no later
\* fail(), close() or push() changes the queue; an undefined error is not
\* retained, and later pulls drain the buffer and end; fail(error) on a queue
\* that is closed already changes nothing.
C23_FailOnOpenQueueRejectsForGood ==
    /\ [][(EndStep /\ EndCall.op = "fail")
            => IF aq.closed
               THEN aq' = aq /\ pulls' = pulls
               ELSE /\ aq' = [aq EXCEPT !.closed = TRUE, !.error = EndCall.error,
                                        !.waiters = <<>>]
                    /\ \A k \in DOMAIN pulls :
                          pulls'[k] = IF pulls[k].kind = "wait"
                                      THEN Rejected(EndCall.error) ELSE pulls[k]]_vars
    /\ [](EndedBy("fail")
            => aq.closed /\ aq.waiters = <<>> /\ aq.error = qlog.ends[1].error)
    /\ [][(EndedBy("fail") /\ qlog.ends[1].error # NoError)
            => /\ aq' = aq
               /\ \A k \in DOMAIN pulls : pulls'[k] = pulls[k]
               /\ PullStep => Pulled = Rejected(qlog.ends[1].error)]_vars
    /\ [][(EndedBy("fail") /\ qlog.ends[1].error = NoError /\ PullStep)
            => IF aq.values # <<>>
               THEN Pulled = Value(Head(aq.values)) /\ aq'.values = Tail(aq.values)
               ELSE Pulled = Done /\ aq' = aq]_vars

\* C23, reached: a waiting pull was rejected by fail(E1); a second fail with
\* another error and a push (which threw) followed, and the pull made after
\* them was rejected with E1 again.
C23_Witness ==
    /\ qlog.ends = <<[op |-> "fail", error |-> "E1", open |-> TRUE],
                     [op |-> "fail", error |-> "E2", open |-> FALSE]>>
    /\ pulls = <<Rejected("E1"), Rejected("E1")>>
    /\ qlog.settled = <<1, 2>>
    /\ qlog.threw = 1
    /\ aq.error = "E1"


\* Is the step a push() call.
PushStep == qlog'.pushes # qlog.pushes

\* C24 as stated: a push on a failed queue returns without raising and
\* without buffering or delivering the value.
C24_PushOnFailedIsSilent ==
    [][(PushStep /\ EndedBy("fail"))
         => qlog'.threw = qlog.threw /\ aq' = aq /\ pulls' = pulls]_vars

\* C24: a push on a failed queue raises, as on any closed queue, and neither
\* buffers nor delivers the value: the queue, the pulls and the accepted
\* values stay as they were.
C24_PushOnFailedThrows ==
    [][(PushStep /\ EndedBy("fail"))
         => /\ qlog'.threw = qlog.threw + 1
            /\ qlog'.pushed = qlog.pushed
            /\ aq' = aq
            /\ pulls' = pulls]_vars

\* C24, reached: a value was buffered, the queue failed with E1 while a
\* later pull had not been made, and the push after the failure threw.
C24_Witness ==
    /\ EndedBy("fail") /\ qlog.ends[1].error = "E1"
    /\ qlog.pushes = 2 /\ qlog.threw = 1
    /\ qlog.pushed = <<PushValue(1)>>
    /\ aq.values = <<PushValue(1)>>
    /\ pulls = <<Rejected("E1")>>


\* The pulls still waiting, in the order they were made.
Waiting == SelectSeq([k \in DOMAIN pulls |-> k], LAMBDA k : pulls[k].kind = "wait")

\* C25: the waiters of the queue are the pulls still waiting, in the order
\* they began to wait; a push on a queue with waiters gives its value to the
\* first of them and leaves the others waiting in the same order; close() and
\* fail() on an open queue settle every waiter, with the end or with the
\* error, and leave none waiting; pulls are settled in the order they were
\* made.
C25_WaitersServedInOrder ==
    /\ [](aq.waiters = Waiting)
    /\ [](\A i, j \in DOMAIN qlog.settled : i < j => qlog.settled[i] < qlog.settled[j])
    /\ [][(PushStep /\ Waiting # <<>>)
            => /\ pulls' = [pulls EXCEPT ![Head(Waiting)] = Value(PushValue(qlog'.pushes))]
               /\ aq'.waiters = Tail(Waiting)
               /\ qlog'.settled = Append(qlog.settled, Head(Waiting))]_vars
    /\ [][(EndStep /\ ~aq.closed)
            => /\ aq'.waiters = <<>>
               /\ qlog'.settled = qlog.settled \o Waiting
               /\ \A k \in DOMAIN pulls :
                     pulls'[k] = IF pulls[k].kind # "wait" THEN pulls[k]
                                 ELSE IF EndCall.op = "close" THEN Done
                                 ELSE Rejected(EndCall.error)]_vars

\* C25, reached: four consumers waited on the empty queue; the first two
\* pushes went to the first and the second of them, and fail(E2) then
\* rejected the third and the fourth.
C25_Witness ==
    /\ pulls = <<Value(PushValue(1)), Value(PushValue(2)), Rejected("E2"), Rejected("E2")>>
    /\ qlog.settled = <<1, 2, 3, 4>>
    /\ qlog.pushes = 2
    /\ Len(qlog.ends) = 1
    /\ aq.waiters = <<>>


\* Has the record r a field named key.
Has(r, key) == key \in Keys(r)

\* Does key end in an underscore.
EndsInUnderscore(key) == key \in {"async_", "continue_", "extra_"}

\* The place of key in r.
Place(r, key) == CHOOSE i \in DOMAIN r : r[i][1] = key

\* C26 as stated: the payload has every field of the output whose name ends
\* in an underscore under the name without it, and every other field under
\* its own name, with the same value.
C26_EveryTrailingUnderscoreStripped ==
    hook.pc = "converted"
      => \A key \in Keys(hook.output) :
            LET name == IF EndsInUnderscore(key) THEN ConvertKeyStripping(key) ELSE key IN
            /\ Has(hook.converted, name)
            /\ Get(hook.converted, name) = Get(hook.output, key)

\* C26: the payload has the output's async_ under async and its continue_
\* under continue, and every other field, the others ending in an underscore
\* included, under its own name with its own value; it has no other field;
\* when the output has a field under both the suffixed and the plain name,
\* the payload has the value of the one that comes later in the output.
C26_OnlyAsyncAndContinueRenamed ==
    hook.pc = "converted"
      => LET o == hook.output
             c == hook.converted IN
         /\ \A key \in Keys(o) \ {"async_", "async", "continue_", "continue"} :
               Has(c, key) /\ Get(c, key) = Get(o, key)
         /\ \A p \in {<<"async_", "async">>, <<"continue_", "continue">>} :
               /\ ~Has(c, p[1])
               /\ Has(c, p[2]) <=> (Has(o, p[1]) \/ Has(o, p[2]))
               /\ (Has(o, p[1]) /\ ~Has(o, p[2])) => Get(c, p[2]) = Get(o, p[1])
               /\ (Has(o, p[2]) /\ ~Has(o, p[1])) => Get(c, p[2]) = Get(o, p[2])
               /\ (Has(o, p[1]) /\ Has(o, p[2]))
                     => Get(c, p[2]) = IF Place(o, p[1]) > Place(o, p[2])
                                       THEN Get(o, p[1]) ELSE Get(o, p[2])
         /\ Keys(c) \subseteq (Keys(o) \cup {"async", "continue"})
         /\ Cardinality(Keys(c)) = Len(c)

\* C26, reached: {async_: true, continue_: false, extra_: true} was
\* converted to {async: true, continue: false, extra_: true}.
C26_Witness ==
    /\ hook.pc = "converted"
    /\ hook.output = <<(<<"async_", "true">>), (<<"continue_", "false">>), (<<"extra_", "true">>)>>
    /\ hook.converted = <<(<<"async", "true">>), (<<"continue", "false">>), (<<"extra_", "true">>)>>


\* Is the step the dispatch of a hook_callback request.
HookRequestStep == log'.hookRequests # log.hookRequests

\* The request of a HookRequestStep: its handler and the id it names.
HookRequest == log'.hookRequests[Len(log'.hookRequests)]

\* C27: the hook registry only grows; the id an initialize request line
\* names is in the registry when the line has been written; a hook_callback
\* request naming a registered id has its callback invoked and awaited, one
\* naming an id not registered begins the write of an error response, and a
\* callback is invoked in no other way.
C27_HookCallbacksStayRegistered ==
    /\ [][hookCallbacks \subseteq hookCallbacks']_vars
    /\ [](\A l \in BagToSet(written) :
             (l.type = "control_request" /\ l.subtype = "initialize")
                => l.request_id \in hookCallbacks)
    /\ [][HookRequestStep
            => IF HookRequest.id \in hookCallbacks
               THEN handlers'[HookRequest.h].pc = "callback"
               ELSE /\ handlers'[HookRequest.h].pc = "writing"
                    /\ handlers'[HookRequest.h].att = "error"
                    /\ handlers'[HookRequest.h].raised = "protocol"]_vars
    /\ [][\A h \in Handlers :
             (handlers'[h].pc = "callback" /\ handlers[h].pc # "callback")
                => /\ HookRequestStep
                   /\ HookRequest.h = h
                   /\ HookRequest.id \in hookCallbacks]_vars

\* C27, reached: initialize() ran twice and the engine was closed; a request
\* naming the unregistered id 0 was answered with an error, one naming the id
\* of the first initialize() with the callback's output.
C27_Witness ==
    /\ hookCallbacks = {1, 2}
    /\ closed
    /\ RequestLine(1, "initialize") \in BagToSet(written)
    /\ log.hookRequests = <<[h |-> 1, id |-> 0], [h |-> 2, id |-> 1]>>
    /\ ResponseLine(1, "error", "protocol") \in BagToSet(written)
    /\ ResponseLine(2, "success", "hook_output") \in BagToSet(written)


\* Is the step a connect call with a string prompt on a client with a
\* canUseTool callback.
StringConnectStep ==
    /\ client'.connectCalls = client.connectCalls + 1
    /\ client'.prompt = "string"
    /\ client.canUseTool

\* Does the step leave the client without a new transport connection and
\* without a new engine.
NothingConnected ==
    /\ client'.transportConnects = client.transportConnects
    /\ client'.engines = client.engines

\* C28: connect with a string prompt on a client that has a canUseTool
\* callback and no engine ends at once with a connection error - the one
\* about string prompts when neither permissionPromptToolName nor a custom
\* transport is given - with no transport connected and no engine created,
\* and the client stays without an engine; a client without an engine throws
\* the not-connected error from its other operations.  On a client that has an
\* engine the same happens once its disconnect() has returned; when the
\* engine's close() throws instead, connect ends with that error, again with
\* nothing connected or created.
C28_StringPromptWithCanUseToolRejected ==
    /\ [][(StringConnectStep /\ client.queryInstance = 0)
            => /\ client'.pc = "idle"
               /\ client'.result \in ConnectionErrors
               /\ (~client.permissionPromptToolName /\ ~client.customTransport)
                     => client'.result = "E_string_can_use_tool"
               /\ NothingConnected
               /\ client'.queryInstance = 0 /\ client'.transport = 0]_vars
    /\ [][(client.pc = "disconnect" /\ client.prompt = "string" /\ client.canUseTool
             /\ client'.pc # "disconnect")
            => /\ client'.pc = "idle"
               /\ NothingConnected
               /\ \/ /\ client'.result \in ConnectionErrors
                     /\ client'.queryInstance = 0 /\ client'.transport = 0
                  \/ /\ client'.result = "E_close"
                     /\ client'.queryInstance = client.queryInstance]_vars
    /\ []((client.prompt = "string" /\ client.canUseTool)
            => client.pc \notin {"transport", "starting"})
    /\ [][(client.queryInstance = 0 /\ client'.op \in GuardedOps
             /\ <<client'.op, client'.opResult>> # <<client.op, client.opResult>>)
            => client'.opResult = "E_not_connected"]_vars

\* C28, reached: a client with only canUseTool had connect("...") rejected
\* with the error about string prompts, no transport connected and no engine
\* created, and interrupt() then threw the not-connected error.
C28_Witness ==
    /\ client.canUseTool /\ ~client.permissionPromptToolName /\ ~client.customTransport
    /\ client.connectCalls = 1 /\ client.prompt = "string"
    /\ client.result = "E_string_can_use_tool"
    /\ client.transportConnects = 0 /\ client.engines = 0
    /\ client.queryInstance = 0
    /\ client.op = "interrupt" /\ client.opResult = "E_not_connected"


\* Do the ids a and b fall in the same class: both absent or null, or neither
\* and with the same string form.
SameIdClass(a, b) ==
    IF a \in {"absent", "null"} \/ b \in {"absent", "null"}
    THEN a \in {"absent", "null"} /\ b \in {"absent", "null"}
    ELSE StringOf(a) = StringOf(b)

\* The handlers whose request carries an identifier.
WithId == {h \in Handlers : /\ handlers[h].subtype = "mcp_message"
                            /\ handlers[h].rpcId \notin {"absent", "null"}}

\* The places of the buffered outbound messages that answer handler h.
Answers(h) ==
    {i \in DOMAIN outboundQueue.values :
        SameIdClass(outboundQueue.values[i], handlers[h].rpcId)}

\* Has handler h ended with the reply v.
RepliedWith(h, v) ==
    /\ handlers'[h].pc = "writing" /\ handlers'[h].att = "success"
    /\ handlers'[h].reply = v

\* Has handler h ended with the bridge-closed error.
FailedAsClosed(h) ==
    /\ handlers'[h].pc = "writing" /\ handlers'[h].att = "error"
    /\ handlers'[h].raised = "bridge"

\* C29: a reply returned for a request with an identifier has an identifier
\* of the request's class; when the wait begins, the buffered messages up to
\* the first answer are pulled, the answer returned and the others dropped,
\* and without an answer all are dropped and the request waits, or fails as
\* bridge closed on a closed channel; a message sent to a waiting request is
\* returned when it answers, else dropped with the request waiting on; when
\* the channel is closed every waiting request fails as bridge closed.
C29_RepliesMatchTheRequest ==
    /\ [](\A h \in WithId :
             (handlers[h].pc = "writing" /\ handlers[h].att = "success")
                => SameIdClass(handlers[h].reply, handlers[h].rpcId))
    /\ [][\A h \in WithId :
             (handlers[h].pc = "delivering" /\ handlers'[h].pc # "delivering"
                /\ handlers'[h].raised # "service")
                => IF Answers(h) # {}
                   THEN LET i == CHOOSE i \in Answers(h) : \A j \in Answers(h) : i <= j IN
                        /\ RepliedWith(h, outboundQueue.values[i])
                        /\ outboundQueue'.values
                              = SubSeq(outboundQueue.values, i + 1, Len(outboundQueue.values))
                   ELSE /\ outboundQueue'.values = <<>>
                        /\ IF outboundQueue.closed THEN FailedAsClosed(h)
                           ELSE /\ handlers'[h].pc = "waitResp"
                                /\ outboundQueue'.waiters = Append(outboundQueue.waiters, h)]_vars
    /\ [][(nSends' # nSends /\ outboundQueue.waiters # <<>>)
            => LET h == Head(outboundQueue.waiters) IN
               /\ outboundQueue'.values = <<>>
               /\ \A k \in Handlers \ {h} : handlers'[k] = handlers[k]
               /\ \/ /\ handlers'[h] = handlers[h]
                     /\ outboundQueue'.waiters = Append(Tail(outboundQueue.waiters), h)
                  \/ /\ outboundQueue'.waiters = Tail(outboundQueue.waiters)
                     /\ \/ /\ handlers[h].pc = "waitResp"
                           /\ handlers'[h].pc = "writing" /\ handlers'[h].att = "success"
                           /\ SameIdClass(handlers'[h].reply, handlers[h].rpcId)
                        \/ /\ handlers[h].pc # "waitResp"
                           /\ handlers'[h] = handlers[h]]_vars
    /\ [][(~tClosed /\ tClosed')
            => /\ outboundQueue'.waiters = <<>>
               /\ \A h \in Handlers :
                     (handlers[h].pc = "waitResp" /\ wfr[h] = "waiting")
                        => FailedAsClosed(h)]_vars

\* C29, reached: the request with the number 1 as id got the reply with the
\* string "1" as id, one other message having been sent and dropped, and the
\* next request, waiting when the bridge was closed, failed as bridge closed.
C29_Witness ==
    /\ handlers[1].rpcId = "n1" /\ handlers[1].att = "success"
    /\ handlers[1].reply = "s1"
    /\ nSends = 2
    /\ outboundQueue.values = <<>>
    /\ handlers[2].rpcId = "n2" /\ handlers[2].raised = "bridge"
    /\ tClosed


\* The handlers whose request carries no identifier: id absent or null.
WithoutId == {h \in Handlers : /\ handlers[h].subtype = "mcp_message"
                               /\ handlers[h].pc \notin {"unused", "done", "crashed"}
                               /\ handlers[h].rpcId \in {"absent", "null"}}

\* C30: a request without an identifier is answered in the step in which
\* deliver returns, with the synthesized reply (id null, result null); the
\* step leaves the outbound channel and the waits as they are, buffered
\* messages included; such a request never waits for a reply, is never among
\* the channel's waiters, and gets a reply in no other step.
C30_NotificationAnsweredAtOnce ==
    /\ [][\A h \in WithoutId :
             (handlers[h].pc = "delivering" /\ handlers'[h].pc # "delivering"
                /\ handlers'[h].raised # "service")
                => /\ RepliedWith(h, "null")
                   /\ outboundQueue' = outboundQueue
                   /\ wfr' = wfr]_vars
    /\ [](\A h \in WithoutId :
             /\ handlers[h].pc # "waitResp"
             /\ wfr[h] = "none"
             /\ \A i \in DOMAIN outboundQueue.waiters : outboundQueue.waiters[i] # h)
    /\ [][\A h \in WithoutId :
             (handlers'[h].att = "success" /\ handlers[h].att # "success")
                => handlers[h].pc = "delivering"]_vars

\* C30, reached: a notification with a null id was answered with the
\* synthesized reply while a message the service had sent was still in the
\* outbound channel.
C30_Witness ==
    /\ handlers[1].rpcId = "null"
    /\ handlers[1].pc = "writing" /\ handlers[1].att = "success"
    /\ handlers[1].reply = "null"
    /\ outboundQueue.values = <<"absent">>
    /\ wfr[1] = "none"


\* The handlers whose onmessage call ends by throwing in the step.
ThrowsNow == log'.threwIn \ log.threwIn

\* C31 as stated: with an onerror handler registered the error is reported
\* and deliver completes normally, so the request does not fail in deliver;
\* without one the request fails with the error and nothing is reported.
C31_ReportedOrRethrown ==
    [][\A h \in ThrowsNow :
          IF onerror
          THEN h \in log'.reported /\ handlers'[h].att # "error"
          ELSE h \notin log'.reported /\ handlers'[h].raised = "service"]_vars

\* C31: the error onmessage threw is handed to onerror when an onerror
\* handler is registered, and is then not re-thrown: deliver completes
\* normally unless the onerror handler throws itself, in which case deliver
\* ends with what onerror threw; without an onerror handler the error is
\* re-thrown to the caller and reported nowhere.  An error is never dropped,
\* and only errors that were thrown are reported.
C31_ErrorGoesToOnePlace ==
    /\ [][\A h \in ThrowsNow :
             /\ handlers[h].pc = "delivering"
             /\ IF onerror
                THEN /\ h \in log'.reported
                     /\ handlers'[h].raised \in {"none", "onerror"}
                     /\ handlers'[h].raised = "none"
                           => handlers'[h].pc \in {"waitResp", "writing"}
                ELSE /\ h \notin log'.reported
                     /\ handlers'[h].pc = "writing"
                     /\ handlers'[h].att = "error"
                     /\ handlers'[h].raised = "service"]_vars
    /\ [](log.reported \subseteq log.threwIn)
    /\ [](\A h \in log.threwIn :
             (h \in log.reported) # (handlers[h].raised = "service"))
    /\ [][log'.reported \ log.reported \subseteq ThrowsNow]_vars

\* C31, reached: the first request's error went to onerror and the request
\* was answered; the onerror handler threw on the error of the second,
\* which failed with what onerror threw.
C31_Witness ==
    /\ onerror
    /\ log.threwIn = {1, 2} /\ log.reported = {1, 2}
    /\ handlers[1].att = "success" /\ handlers[1].raised = "none"
    /\ handlers[2].raised = "onerror" /\ handlers[2].att = "error"


\* Does the step dispatch a handler that does nothing but begin the write of
\* the protocol error's response: no callback is invoked, no service
\* connected, no bridge created, no line written yet, and every other handler,
\* the registries and the inbound channel stay as they were.
OnlyProtocolError ==
    LET h == nHandlers' IN
    /\ nHandlers' = nHandlers + 1
    /\ handlers'[h].pc = "writing"
    /\ handlers'[h].att = "error"
    /\ handlers'[h].raised = "protocol"
    /\ \A k \in Handlers \ {h} : handlers'[k] = handlers[k]
    /\ connectCalls' = connectCalls
    /\ connected' = connected
    /\ sdkMcpBridges' = sdkMcpBridges
    /\ log'.bridgesCreated = log.bridgesCreated
    /\ queue' = queue
    /\ written' = written
    /\ messageQueue' = messageQueue
    /\ pendingControlRequests' = pendingControlRequests
    /\ hookCallbacks' = hookCallbacks
    /\ callers' = callers
    /\ readLoop' = readLoop

Delivered ==
    LET values == SelectSeq(received, LAMBDA res : res.kind = "value") IN
    [k \in DOMAIN values |-> values[k].v]

\* The data messages given to the consumer followed by those still buffered.
DataSeq == Delivered \o messageQueue.values

\* C33 (as stated): a data message that was read is produced by
\* receiveMessages(): none stays buffered behind a pull that does not take it.
C33_EveryDataMessageProduced == messageQueue.values # <<>> => NextPull.kind = "value"

\* C33: the read of a data message appends it to the messages delivered or
\* buffered, and no other step changes them: neither the read of a control
\* response, a control request or a control_cancel_request (which changes
\* nothing but the read position), nor a pull, close() or a failure.  A pull
\* takes the oldest buffered message, except on a channel failed with an Error
\* object, whose pulls are rejected and whose buffered messages stay undelivered.
C33_DataMessagesInOrder ==
    /\ [][IF ReadDataMessage
          THEN DataSeq' = Append(DataSeq, DataValue(nRead + 1))
          ELSE DataSeq' = DataSeq]_vars
    /\ [][ReadCancelRequest
            => UNCHANGED <<unitVars, extVars, queryVars, taskVars, written, consumer,
                           received, bridgeVars, log>>]_vars
    /\ [][(ReadControlResponse(1, "success", "x") \/ ReadUnsupportedRequest("other"))
            => UNCHANGED <<messageQueue, consumer, received>>]_vars
    /\ [](messageQueue.values # <<>>
            => NextPull = IF messageQueue.error # NoError
                          THEN Rejected(messageQueue.error)
                          ELSE Value(Head(messageQueue.values)))
    /\ [](\A i, j \in DOMAIN DataSeq : i < j => DataSeq[i] # DataSeq[j])

\* C33, reached: a control response, a control_cancel_request or a control
\* request came between two data messages, and the consumer got exactly the
\* two data messages, in their order.
C33_Witness ==
    /\ nRead = 3
    /\ Delivered = <<"d1", "d3">>
    /\ messageQueue.values = <<>>

\* C33, reached: a data message is buffered on a channel failed with an Error
\* object.
C33_WitnessSkipped ==
    /\ messageQueue.values # <<>>
    /\ messageQueue.error = "E_read"
    /\ received # <<>>
    /\ received[Len(received)].kind = "error"


\* C34: while the read loop runs on an engine that is not marked closed, the
\* inbound channel is open and not failed; the loop pushes a data message only
\* onto an open channel, and the push leaves the loop running and the channel
\* open and not failed; the channel holds an error only when iterating the
\* transport threw it while the channel was open.
C34_NoPushOnClosedChannel ==
    /\ []((readLoop = "running" /\ ~closed)
            => (~messageQueue.closed /\ messageQueue.error = NoError))
    /\ [][ReadDataMessage
            => /\ ~messageQueue.closed
               /\ ~QPush(messageQueue, DataValue(nRead + 1)).threw
               /\ readLoop' = "running"
               /\ ~messageQueue'.closed
               /\ messageQueue'.error = NoError]_vars
    /\ [](messageQueue.error # NoError
            => (log.loopError = messageQueue.error /\ ~log.closedFirst))
    /\ [](closed => messageQueue.closed)

\* C34, reached: data messages were pushed, close() closed the channel, and
\* the loop then took another message and ended without failing the channel.
C34_Witness ==
    /\ closed
    /\ log.readWhenClosed = 1
    /\ readLoop = "done"
    /\ messageQueue.values # <<>>
    /\ messageQueue.error = NoError
    /\ nRead = 3


\* C35: from the step that begins the write of a request line the request's
\* id is registered, and stays so while the write is in progress or the caller
\* waits, until a response for it is processed; a response carrying the id
\* that the loop processes then, be it before the write returned, settles the
\* caller's promise with the response's outcome and removes the entry.  The
\* caller gets that outcome when its write has returned; a write that throws
\* ends the call with the write's error.
C35_RegisteredBeforeWritten ==
    /\ [](\A c \in Calls :
            (callers[c].pc \in {"writing", "awaiting"} /\ log.settles[c] = 0)
               => (c \in pendingControlRequests /\ callers[c].promise = "pending"))
    /\ [](\A c \in Calls : RequestsWritten(c) > 0 => callers[c].pc \notin {"unused", "writing"})
    /\ [][\A c \in Calls :
            (callers[c].pc = "unused" /\ callers'[c].pc # "unused")
               => /\ callers'[c].pc = "writing"
                  /\ c \in pendingControlRequests'
                  /\ written' = written]_vars
    /\ [][\A c \in Calls, subtype \in {"success", "error"}, body \in {"absent", "x"} :
            (/\ nRead' = nRead + 1
             /\ callers[c].pc \in {"writing", "awaiting"}
             /\ log.settles[c] = 0
             /\ ReadControlResponse(c, subtype, body))
               => /\ log'.settles[c] = 1
                  /\ callers'[c].promise = (IF subtype = "error" THEN "rejected" ELSE "resolved")
                  /\ callers'[c].pc = callers[c].pc
                  /\ c \notin pendingControlRequests']_vars
    /\ [][\A c \in Calls :
            (callers[c].pc = "writing" /\ callers'[c].pc # "writing")
               => /\ callers'[c].pc \in {"awaiting", "writeFailed"}
                  /\ callers'[c].promise = callers[c].promise
                  /\ callers'[c].value = callers[c].value]_vars
    /\ [](\A c \in Calls :
            /\ callers[c].pc = "returned"
                 => (callers[c].promise = "resolved" /\ callers[c].result = callers[c].value)
            /\ callers[c].pc = "failed"
                 => (callers[c].promise = "rejected" /\ callers[c].result = callers[c].value))

\* C35, reached: the response to a request was processed while the write of
\* the request line had not returned, and settled the caller's promise.
C35_Witness ==
    /\ callers[1].pc = "writing"
    /\ callers[1].promise = "resolved"
    /\ log.settles[1] = 1
    /\ 1 \notin pendingControlRequests
    /\ RequestsWritten(1) = 0


\* Has close() been called and not yet returned.
CloseInProgress == closePc \in {"bridges", "transport", "readLoop"}

\* C36: a close() in progress eventually returns, whatever the handlers do;
\* it returns only once the read loop has ended, if one was launched.
C36_CloseCompletes ==
    /\ CloseInProgress ~> closePc = "done"
    /\ [][(CloseInProgress /\ closePc' = "done") => readLoop' \in {"none", "done"}]_vars

\* C36, reached: close() has returned while a permission callback has not and
\* the request to the server bridge is still in progress.
C36_Witness ==
    /\ closePc = "done"
    /\ \E h \in Handlers : handlers[h].pc = "callback"
    /\ \E h \in Handlers : handlers[h].subtype = "mcp_message"
                              /\ handlers[h].pc \notin {"unused", "done", "crashed"}
    /\ readLoop = "done"


\* The handlers whose request waits for a matching reply.
AwaitingReply == {h \in Handlers : handlers[h].pc = "waitResp" /\ wfr[h] = "waiting"}

C38_ServiceNotCalledAfterClose ==
    [][tClosed => /\ connectCalls' = connectCalls
                  /\ Delivering' \subseteq Delivering]_vars

\* With the bridge closed, the service's message handler is still never
\* invoked: deliver throws on the closed transport.
C38_NoDeliveryAfterClose == [][tClosed => Delivering' \subseteq Delivering]_vars


\* C39: in every state of an AsyncQueue with a waiting consumer the buffer is
\* empty and the queue is open (neither closed nor failed); the waiters are
\* the pulls not yet settled.
C39_WaitersOnlyOnEmptyOpenQueue ==
    /\ aq.waiters # <<>> => (aq.values = <<>> /\ ~aq.closed /\ aq.error = NoError)
    /\ aq.waiters = Waiting

\* C39, reached: values were pushed and taken, two further consumers wait on
\* the emptied queue, which is open.
C39_Witness ==
    /\ Len(aq.waiters) = 2
    /\ qlog.pushes = 2
    /\ qlog.threw = 0
    /\ aq.values = <<>>
    /\ ~aq.closed
    /\ pulls[1] = Value(PushValue(1))

\* C39, reached: consumers waited, and the queue was then failed: none waits
\* any longer.
C39_WitnessFailed ==
    /\ aq.closed
    /\ aq.error = "E1"
    /\ aq.waiters = <<>>
    /\ pulls = <<Rejected("E1"), Rejected("E1")>>


\* Has the consumer been handed an error.
ErrorSurfaced == \E i \in DOMAIN received : received[i].kind = "error"

\* C40: when iterating the transport's messages throws after close() closed
\* the inbound channel, the step changes neither the channel nor what the
\* consumer has got or waits for; from then on the channel holds no error, no
\* pull was or is rejected, the next pull takes the oldest buffered message or
\* gets the end of the sequence, and the close() call that awaits the read
\* loop returns.
C40_LateFailureNotSurfaced ==
    /\ [][(closed /\ log'.loopError # log.loopError)
            => /\ log'.closedFirst
               /\ messageQueue' = messageQueue
               /\ received' = received
               /\ consumer' = consumer
               /\ closePc' = closePc
               /\ readLoop' = "done"]_vars
    /\ [](log.closedFirst
            => /\ messageQueue.error = NoError
               /\ ~ErrorSurfaced
               /\ consumer = "idle"
               /\ NextPull = IF messageQueue.values # <<>>
                             THEN Value(Head(messageQueue.values)) ELSE Done
               /\ closePc # "threw")
    /\ [][(log.closedFirst /\ closePc = "readLoop" /\ closePc' # closePc)
            => closePc' = "done"]_vars

\* C40, reached: a data message was buffered, close() was called, iterating
\* then threw an Error; the consumer took the buffered message and then got
\* the end of the sequence, and close() returned.
C40_Witness ==
    /\ log.closedFirst
    /\ log.loopError = "E_read"
    /\ received = <<Value("d1"), Done>>
    /\ closePc = "done"

====
